---- MODULE Spec2Model ----
(***************************************************************************)
(* T-Res: candidate ranking and entity linking.                            *)
(*                                                                         *)
(* Spec      Linker.most_popular (geoparser/linking.py) applied to         *)
(*           candidate sets drawn from a loaded gazetteer.                 *)
(* SpecDist  the distance baseline (Linker.by_distance).                   *)
(* SpecRank  the candidate-ranking loop of Experiment.prepare_data and     *)
(*           prepare_rel_trainset around Ranker.find_candidates.           *)
(* SpecApp   the API handlers of app/run_local_app.py on one event loop.   *)
(* SpecGaz   load_resources (examples/leven+REL.py): the gazetteer filter.  *)
(* SpecStr   the pairwise string strategies of the Ranker.                 *)
(* SpecExact Ranker.perfect_match on batches of mentions.                  *)
(* SpecRel   Linker.rel_disambiguation and the REL branch of               *)
(*           perform_linking.                                              *)
(* SpecJoin  the re-join of predictions and rows in linking_experiments.   *)
(* SpecNer   fix_startEntity and collect_named_entities (utils/ner.py).    *)
(* SpecJson  rank_candidates and add_publication (utils/rel_utils.py).     *)
(*                                                                         *)
(* Scores are exact fractions [num, den]; Python's floats are not          *)
(* modelled beyond their order and the division by zero.                   *)
(***************************************************************************)
EXTENDS Integers, Sequences, FiniteSets, TLC

VARIABLES
    linking_resources,       \* Linker.linking_resources (a dict of resources)
    dict_mention,            \* the argument of the last disambiguation call
    result,                  \* what that call returned or raised
    already_collected_cands, \* Ranker.already_collected_cands (the cache)
    match_calls,             \* per surface form, how often the match ran
    dCandidates,             \* prepare_data: sentence_id -> wk_cands
    sentence_id,             \* prepare_data: position in dMentionsPred
    pc,                      \* API: where each request's handler is
    running,                 \* API: the request the event loop is running
    api_query,               \* API: each request's toponym
    files,                   \* the two gazetteer files under resources_path
    method,                  \* load_resources: the ranking method asked for
    wiki_filtering,          \* the thresholds the caller configures
    mentions_to_wikidata,    \* the gazetteer in use, mention -> id -> count
    wikidata_to_mentions,    \* the gazetteer in use, id -> mention -> count
    passes,                  \* how often the filter ran over the gazetteer
    strategy,                \* the string-matching strategy called
    query,                   \* its first argument, a string
    row,                     \* its second argument, the comparison target
    queried,                 \* perfect_match: the list of mentions asked for
    scorer,                  \* REL: what model.predict gives for each document
    test_df,                 \* perform_linking: the rows, one per mention
    dRELresults,             \* what rel_disambiguation returned
    test_processed,          \* linking_experiments: the rows to join onto
    disambiguated_mentions,  \* linking_experiments: the mentions predicted
    lEntities,               \* fix_startEntity: the token predictions
    tokens,                  \* collect_named_entities: the tagged tokens
    rel_json,                \* article -> its list of mentions (a reference)
    heap,                    \* the list objects rel_json refers to
    wk_cands,                \* rank_candidates: the ranker's candidates
    publication              \* add_publication: the default name and id given

linkVars == <<linking_resources, dict_mention, result>>
rankVars == <<already_collected_cands, match_calls, dCandidates, sentence_id>>
appVars == <<pc, running, api_query>>
gazVars == <<files, method, wiki_filtering, mentions_to_wikidata,
             wikidata_to_mentions, passes>>
matchVars == <<strategy, query, row, queried>>
relVars == <<scorer, test_df, dRELresults>>
joinVars == <<test_processed, disambiguated_mentions>>
nerVars == <<lEntities, tokens>>
jsonVars == <<rel_json, heap, wk_cands, publication>>
extVars == <<relVars, joinVars, nerVars, jsonVars>>
vars == <<linking_resources, dict_mention, result, already_collected_cands,
          match_calls, dCandidates, sentence_id, pc, running, api_query,
          files, method, wiki_filtering, mentions_to_wikidata,
          wikidata_to_mentions, passes, strategy, query, row, queried, scorer,
          test_df, dRELresults, test_processed, disambiguated_mentions,
          lEntities, tokens, rel_json, heap, wk_cands, publication>>

-----------------------------------------------------------------------------
(* Bounds and universes *)

MaxCount == 3

MaxCoord == 2
MaxSentences == 2
MaxMentions == 2
MaxRequests == 3

Variations == {"London", "Londres"}
Ids == {"Q84", "Q92561"}
\* Normalised relevances carried by a candidate set, in tenths.
Relevances == {1, 9}

\* Raw surface forms the recogniser hands to the ranker.
Mentions == {"London", "LONDON", "Lvndon"}

\* Reference places (place_wqid): a candidate itself, or another place.
Places == Ids \cup {"Q172"}

NoCall == [candidates |-> "none"]
NoResult == [raised |-> "nocall", value |-> <<>>]

-----------------------------------------------------------------------------
(* Helpers on sequences and fractions *)

Range(s) == {s[i] : i \in DOMAIN s}

\* Python dicts iterate in insertion order: a dict is a sequence of items
\* with distinct keys.
Orderings(S) ==
    {s \in [1..Cardinality(S) -> S] : \A i, j \in 1..Cardinality(S) : s[i] = s[j] => i = j}

OrderedSubsets(S) == UNION {Orderings(T) : T \in SUBSET S}

Frac(n, d) == [num |-> n, den |-> d]
FracEq(a, b) == a.num * b.den = b.num * a.den
FracLt(a, b) == a.num * b.den < b.num * a.den
FracLe(a, b) == a.num * b.den <= b.num * a.den
Zero == Frac(0, 1)
One == Frac(1, 1)

-----------------------------------------------------------------------------
(* The gazetteer the linker loads, and the candidate sets built from it *)

\* mentions_to_wikidata.json: mention -> {wikidata id -> absolute count};
\* an association is listed with a positive count (spec 3, GazetteerEntry).
CandidateCounts == UNION {[S -> 1..MaxCount] : S \in (SUBSET Ids) \ {{}}}
Gazetteers == UNION {[V -> CandidateCounts] : V \in SUBSET Variations}

\* cands[variation]["Candidates"]: id -> relevance, for ids the gazetteer
\* lists under the variation; the map may be empty (tests/test_linking.py:72).
CandidateMaps(m2w, variation) ==
    UNION {{[i \in DOMAIN p |-> [id |-> p[i], relv |-> r[i]]] : r \in [DOMAIN p -> Relevances]}
           : p \in OrderedSubsets(DOMAIN m2w[variation])}

AllCandidateMaps(m2w) == UNION {CandidateMaps(m2w, v) : v \in DOMAIN m2w}

\* dict_mention["candidates"]: variation -> {"Candidates": {...}}.
CandidateSets(m2w) ==
    UNION {{[i \in DOMAIN vs |-> [variation |-> vs[i], Candidates |-> c[i]]]
            : c \in {d \in [DOMAIN vs -> AllCandidateMaps(m2w)]
                     : \A i \in DOMAIN vs : d[i] \in CandidateMaps(m2w, vs[i])}}
           : vs \in OrderedSubsets(DOMAIN m2w)}

-----------------------------------------------------------------------------
(* Linker.most_popular *)

\* The (variation, candidate) pairs in the order the two nested loops visit.
RECURSIVE Entries(_)
Entries(cands) ==
    IF cands = <<>> THEN <<>>
    ELSE [i \in DOMAIN Head(cands).Candidates |->
             [variation |-> Head(cands).variation,
              candidate |-> Head(cands).Candidates[i].id]]
         \o Entries(Tail(cands))

\* linking.py:280: the score is read from the gazetteer, not from the
\* relevance the candidate set carries.
EntryScore(m2w, e) == m2w[e.variation][e.candidate]

\* The comparison inverted: the least popular candidate is kept.
IsHigherInverted(score, keep_highest_score) ==
    score < keep_highest_score \/ keep_highest_score = 0
\* The comparison made non-strict: a later entry of equal score is kept.
IsHigherOrEqual(score, keep_highest_score) == score >= keep_highest_score
\* linking.py:284
IsHigher(score, keep_highest_score) == score > keep_highest_score

\* linking.py:283
AddToTotal(total_score, score) == total_score + score

\* One pass of the inner loop body, linking.py:280-286.
Step(m2w, acc, e) ==
    LET score == EntryScore(m2w, e)
        better == IsHigher(score, acc.keep_highest_score)
    IN [total_score |-> AddToTotal(acc.total_score, score),
        keep_highest_score |-> IF better THEN score ELSE acc.keep_highest_score,
        keep_most_popular |-> IF better THEN e.candidate ELSE acc.keep_most_popular]

RECURSIVE Scan(_, _, _)
Scan(m2w, acc, es) ==
    IF es = <<>> THEN acc ELSE Scan(m2w, Step(m2w, acc, Head(es)), Tail(es))

\* An add-one smoothing of the total.
FinalScoreSmoothed(keep_highest_score, total_score) ==
    Frac(keep_highest_score, total_score + 1)
\* linking.py:288
FinalScore(keep_highest_score, total_score) == Frac(keep_highest_score, total_score)

Returned(v) == [raised |-> "none", value |-> v]
Raised(x) == [raised |-> x, value |-> <<>>]

most_popular(resources, mention) ==
    LET cands == mention.candidates
        start == [total_score |-> 0, keep_highest_score |-> 0, keep_most_popular |-> "NIL"]
        acc == Scan(resources.mentions_to_wikidata, start, Entries(cands))
    IN IF cands # <<>>
       THEN IF acc.total_score = 0
            THEN Raised("ZeroDivisionError")
            ELSE Returned(<<acc.keep_most_popular,
                            FinalScore(acc.keep_highest_score, acc.total_score)>>)
       ELSE Returned(<<"NIL", Zero>>)

-----------------------------------------------------------------------------
(* Spec: the frequency baseline *)

IdleRank ==
    /\ already_collected_cands = <<>>
    /\ match_calls = <<>>
    /\ dCandidates = <<>>
    /\ sentence_id = 0

IdleApp ==
    /\ pc = <<>>
    /\ running = 0
    /\ api_query = <<>>

IdleMatch ==
    /\ strategy = "none"
    /\ query = <<>>
    /\ row = <<>>
    /\ queried = <<>>

IdleRel ==
    /\ scorer = <<>>
    /\ test_df = <<>>
    /\ dRELresults = <<>>

IdleJoin ==
    /\ test_processed = <<>>
    /\ disambiguated_mentions = <<>>

IdleNer ==
    /\ lEntities = <<>>
    /\ tokens = <<>>

IdleJson ==
    /\ rel_json = <<>>
    /\ heap = <<>>
    /\ wk_cands = <<>>
    /\ publication = <<>>

IdleExt == IdleRel /\ IdleJoin /\ IdleNer /\ IdleJson

IdleGaz ==
    /\ files = <<>>
    /\ method = "perfectmatch"
    /\ wiki_filtering = <<>>
    /\ mentions_to_wikidata = <<>>
    /\ wikidata_to_mentions = <<>>
    /\ passes = 0

Init ==
    /\ linking_resources \in {[mentions_to_wikidata |-> g] : g \in Gazetteers}
    /\ dict_mention = NoCall
    /\ result = NoResult
    /\ IdleRank
    /\ IdleApp
    /\ IdleGaz
    /\ IdleMatch
    /\ IdleExt

\* perform_linking applies most_popular to one row (a mention) at a time,
\* linking.py:153-158.
MostPopular ==
    /\ result = NoResult
    /\ \E cands \in CandidateSets(linking_resources.mentions_to_wikidata) :
          /\ dict_mention' = [candidates |-> cands]
          /\ result' = most_popular(linking_resources, [candidates |-> cands])
    /\ UNCHANGED <<linking_resources, rankVars, appVars, gazVars, matchVars, extVars>>

\* The row's prediction is stored and the next row is taken; an exception
\* is not caught and ends the run.
NextRow ==
    /\ result.raised = "none"
    /\ dict_mention' = NoCall
    /\ result' = NoResult
    /\ UNCHANGED <<linking_resources, rankVars, appVars, gazVars, matchVars, extVars>>

Next == MostPopular \/ NextRow

Spec == Init /\ [][Next]_vars

-----------------------------------------------------------------------------
(* What a finished most_popular call is measured against *)

Called == result # NoResult
ReturnedNormally == result.raised = "none"
M2W == linking_resources.mentions_to_wikidata
Cands == dict_mention.candidates

\* The candidates flattened across the matched variants: positions <<i, j>>.
Flat == UNION {{<<i, j>> : j \in DOMAIN Cands[i].Candidates} : i \in DOMAIN Cands}
FlatId(p) == Cands[p[1]].Candidates[p[2]].id
InputRelevance(p) == Cands[p[1]].Candidates[p[2]].relv
\* The relevance of a flattened candidate: its count under the variant.
Relevance(p) == M2W[Cands[p[1]].variation][FlatId(p)]
InputIds == {FlatId(p) : p \in Flat}

RECURSIVE SumOver(_)
SumOver(S) ==
    IF S = {} THEN 0
    ELSE LET p == CHOOSE q \in S : TRUE IN Relevance(p) + SumOver(S \ {p})

TotalRelevance == SumOver(Flat)
TopRelevance == CHOOSE m \in {Relevance(p) : p \in Flat} : \A q \in Flat : Relevance(q) <= m
RawShare == Frac(TopRelevance, TotalRelevance)

Identifier == result.value[1]
Confidence == result.value[2]

TestCandidates ==
    <<[variation |-> "London",
       Candidates |-> <<[id |-> "Q84", relv |-> 9], [id |-> "Q92561", relv |-> 1]>>]>>

-----------------------------------------------------------------------------
(* C1 *)

\* C1 as stated: with more than one candidate after flattening, the
\* confidence of the winner is strictly above its raw share (top relevance
\* over the sum of all relevances) and strictly below 1.
C1_SmoothedAboveShare ==
    (Called /\ Cardinality(Flat) > 1) =>
        /\ ReturnedNormally
        /\ FracLt(RawShare, Confidence)
        /\ FracLt(Confidence, One)

\* C1 amended: with more than one candidate after flattening, the confidence
\* of the winner is exactly its raw share, the top gazetteer count over the
\* sum of the gazetteer counts of all flattened candidates, and it is
\* strictly below 1.
C1_ConfidenceIsRawShare ==
    (Called /\ Cardinality(Flat) > 1) =>
        /\ ReturnedNormally
        /\ FracEq(Confidence, RawShare)
        /\ FracLt(Confidence, One)

\* The test's candidate set, answered with a confidence below the 0.9 the
\* candidate set carries for the winner.
C1_Witness ==
    /\ Called
    /\ Cands = TestCandidates
    /\ ReturnedNormally
    /\ Identifier = "Q84"
    /\ FracLt(Confidence, Frac(9, 10))

-----------------------------------------------------------------------------
(* C2 *)

\* C2: on an empty candidate set most_popular returns the identifier NIL,
\* the confidence 0.0 and an empty candidate distribution.
C2_EmptyGivesNilZeroEmpty ==
    (Called /\ Cands = <<>>) =>
        /\ ReturnedNormally
        /\ Len(result.value) = 3
        /\ Identifier = "NIL"
        /\ FracEq(Confidence, Zero)
        /\ result.value[3] = <<>>

-----------------------------------------------------------------------------
(* C3 *)

\* C3: for a candidate set with at least one candidate, the identifier
\* returned is a flattened candidate of the highest relevance, and the
\* confidence is that relevance over the sum of the relevances of all
\* flattened candidates.
C3_WinnerIsTopOverTotal ==
    (Called /\ Flat # {}) =>
        /\ ReturnedNormally
        /\ \E p \in Flat : FlatId(p) = Identifier /\ Relevance(p) = TopRelevance
        /\ Confidence.num * TotalRelevance = TopRelevance * Confidence.den
        /\ Confidence.den # 0

\* Two variants, three candidates or more, and the winner is listed under
\* the second variant, below a candidate of lower relevance.
C3_Witness ==
    /\ Called
    /\ Len(Cands) = 2
    /\ Cardinality(Flat) >= 3
    /\ ReturnedNormally
    /\ \E p \in Flat : p[1] = 2 /\ FlatId(p) = Identifier /\ Relevance(p) = TopRelevance
    /\ \A p \in Flat : p[1] = 1 => Relevance(p) < TopRelevance

-----------------------------------------------------------------------------
(* C4 *)

\* C4: most_popular returns a third result, the re-normalised candidate
\* distribution: its identifiers are exactly the input candidates, and a
\* candidate of higher input relevance has the higher share in it.
C4_DistributionKeepsOrder ==
    (Called /\ ReturnedNormally) =>
        /\ Len(result.value) = 3
        /\ DOMAIN result.value[3] = InputIds
        /\ \A p, q \in Flat :
              InputRelevance(p) > InputRelevance(q) =>
                  FracLt(result.value[3][FlatId(q)], result.value[3][FlatId(p)])

-----------------------------------------------------------------------------
(* C5 *)

\* C5: every disambiguation call returns a confidence in [0,1] and an
\* identifier that is NIL or one of the input candidates.
C5_ConfidenceAndIdentifierValid ==
    Called =>
        /\ ReturnedNormally
        /\ FracLe(Zero, Confidence)
        /\ FracLe(Confidence, One)
        /\ Identifier \in {"NIL"} \cup InputIds

-----------------------------------------------------------------------------
(* C6 *)

\* C6: a candidates value without any identifier, the empty map or matched
\* variants whose "Candidates" maps are all empty, is answered with NIL and
\* confidence 0.0, and nothing is raised.
C6_NoCandidatesGivesNil ==
    (Called /\ Flat = {}) =>
        /\ ReturnedNormally
        /\ Identifier = "NIL"
        /\ FracEq(Confidence, Zero)


-----------------------------------------------------------------------------
(* The distance baseline, Linker.by_distance *)

\* The coordinate lookup: identifier -> position, or absent.  Positions lie
\* on a line; only the order of the distances matters to the baseline.
CoordinateLookups == UNION {[S -> 0..MaxCoord] : S \in SUBSET Places}

GeoDistance(a, b) == IF a >= b THEN a - b ELSE b - a

\* Every gazetteer association present, for drawing candidate sets.
FullGazetteer == [v \in Variations |-> [q \in Ids |-> 1]]

CandidateIds(cands) ==
    UNION {{cands[i].Candidates[j].id : j \in DOMAIN cands[i].Candidates} : i \in DOMAIN cands}

\* The candidates whose coordinates resolve.
Resolvable(coords, cands) == CandidateIds(cands) \cap DOMAIN coords

\* The distance left out: the first resolvable identifier wins.
NearestAny(coords, origin, ids) == ids
Nearest(coords, origin, ids) ==
    {c \in ids : \A d \in ids :
        GeoDistance(coords[c], origin) <= GeoDistance(coords[d], origin)}

\* The re-scoring by inverse distance.
InverseDistance(d) == Frac(1, 1 + d)

\* A fallback that answers with a candidate when nothing resolves.
UnresolvedFallback(cands) ==
    {Returned(<<c, Zero, [x \in {c} |-> Zero]>>) : c \in CandidateIds(cands)}
        \cup {Returned(<<"NIL", Zero, <<>>>>)}
Unresolved(cands) == {Returned(<<"NIL", Zero, <<>>>>)}

\* The possible results of by_distance(dict_mention).
by_distance(resources, mention) ==
    LET coords == resources.wqid_to_coords
        cands == mention.candidates
        ids == Resolvable(coords, cands)
    IN IF mention.place_wqid \notin DOMAIN coords \/ ids = {}
       THEN Unresolved(cands)
       ELSE LET origin == coords[mention.place_wqid]
                resulting_cands ==
                    [c \in ids |-> InverseDistance(GeoDistance(coords[c], origin))]
            IN {Returned(<<c, resulting_cands[c], resulting_cands>>)
                : c \in Nearest(coords, origin, ids)}

InitDist ==
    /\ linking_resources \in {[wqid_to_coords |-> c] : c \in CoordinateLookups}
    /\ dict_mention = NoCall
    /\ result = NoResult
    /\ IdleRank
    /\ IdleApp
    /\ IdleGaz
    /\ IdleMatch
    /\ IdleExt

ByDistance ==
    /\ result = NoResult
    /\ \E cands \in CandidateSets(FullGazetteer), place \in Places :
          LET mention == [candidates |-> cands, place_wqid |-> place]
          IN /\ dict_mention' = mention
             /\ result' \in by_distance(linking_resources, mention)
    /\ UNCHANGED <<linking_resources, rankVars, appVars, gazVars, matchVars, extVars>>

NextDist == ByDistance \/ NextRow

SpecDist == InitDist /\ [][NextDist]_vars

Coords == linking_resources.wqid_to_coords
Origin == Coords[dict_mention.place_wqid]
ResolvableIds == InputIds \cap DOMAIN Coords
NothingResolves == dict_mention.place_wqid \notin DOMAIN Coords \/ ResolvableIds = {}

-----------------------------------------------------------------------------
(* C7 *)

\* C7: when the reference and at least one candidate have coordinates,
\* by_distance returns a candidate with coordinates that no other candidate
\* with coordinates is nearer to the reference than, whatever relevances
\* the candidates carry.
C7_NearestWins ==
    (Called /\ ~NothingResolves) =>
        /\ ReturnedNormally
        /\ Identifier \in ResolvableIds
        /\ \A c \in ResolvableIds :
              GeoDistance(Coords[Identifier], Origin) <= GeoDistance(Coords[c], Origin)

\* The nearer candidate wins against a farther one of higher relevance.
C7_Witness ==
    /\ Called
    /\ ~NothingResolves
    /\ \E p, q \in Flat :
          /\ FlatId(p) = Identifier
          /\ FlatId(q) \in ResolvableIds
          /\ InputRelevance(q) > InputRelevance(p)
          /\ GeoDistance(Coords[FlatId(q)], Origin) > GeoDistance(Coords[Identifier], Origin)

-----------------------------------------------------------------------------
(* C8 *)

\* C8: without candidates, or when the reference or every candidate lacks
\* coordinates, by_distance returns NIL with confidence 0.0, and its
\* candidate distribution holds no identifier that was not a candidate.
C8_NothingResolvesGivesNil ==
    (Called /\ NothingResolves) =>
        /\ ReturnedNormally
        /\ Identifier = "NIL"
        /\ FracEq(Confidence, Zero)
        /\ DOMAIN result.value[3] \subseteq InputIds

\* Candidates are given and the reference resolves, but no candidate does.
C8_Witness ==
    /\ Called
    /\ InputIds # {}
    /\ dict_mention.place_wqid \in DOMAIN Coords
    /\ ResolvableIds = {}
    /\ Identifier = "NIL"


-----------------------------------------------------------------------------
(* Ranker.find_candidates and its callers *)

\* The lookup surface form of a raw mention (case-folded).
Normalize(m) ==
    CASE m = "London" -> "london"
      [] m = "LONDON" -> "london"
      [] m = "Lvndon" -> "lvndon"

\* The gazetteer variants the ranker matches against, as lookup forms.
RankerVariants == {"london"}

\* The underlying match computation of one mention (the exact strategy):
\* variant -> score, 1.0 on equality and no candidate otherwise.
Match(m) ==
    IF Normalize(m) \in RankerVariants
    THEN [v \in {Normalize(m)} |-> One]
    ELSE <<>>

\* Every query is computed, whether or not the cache holds it.
InCacheNever(cache, m) == FALSE
InCache(cache, m) == m \in DOMAIN cache

\* The memoised loop over the queries: a mention the cache holds is not
\* computed again; `computed` lists the match computations that ran.
RECURSIVE Collect(_, _, _)
Collect(queries, cache, computed) ==
    IF queries = <<>> THEN [cache |-> cache, computed |-> computed]
    ELSE LET m == Head(queries)
         IN IF InCache(cache, m)
            THEN Collect(Tail(queries), cache, computed)
            ELSE Collect(Tail(queries), cache @@ (m :> Match(m)), Append(computed, m))

\* find_candidates(mentions) with the cache of the ranker object: returns
\* (wk_cands, already_collected_cands); wk_cands is keyed by lookup form.
find_candidates(mentions, cache) ==
    LET done == Collect(mentions, cache, <<>>)
    IN [wk_cands |-> [k \in {Normalize(m) : m \in Range(mentions)} |->
                         done.cache[CHOOSE m \in Range(mentions) : Normalize(m) = k]],
        already_collected_cands |-> done.cache,
        computed |-> done.computed]

\* The returned cache is dropped, as by a caller that keeps only [0].
KeepOldCache(returned, old) == old
\* experiment.py:188-191, rel_utils.py:326: the second element of the
\* returned pair is assigned to myranker.already_collected_cands.
StoreCache(returned, old) == returned

Occurrences(computed, m) == Cardinality({i \in DOMAIN computed : computed[i] = m})

Batches == UNION {[1..n -> Mentions] : n \in 0..MaxMentions}

InitRank ==
    /\ linking_resources = <<>>
    /\ dict_mention = NoCall
    /\ result = NoResult
    /\ already_collected_cands = <<>>
    /\ match_calls = [m \in Mentions |-> 0]
    /\ dCandidates = <<>>
    /\ sentence_id = 0
    /\ IdleApp
    /\ IdleGaz
    /\ IdleMatch
    /\ IdleExt

\* One call of find_candidates by a caller that stores the returned cache.
CallFindCandidates(mentions, asked) ==
    LET r == find_candidates(mentions, already_collected_cands)
    IN /\ already_collected_cands' =
              StoreCache(r.already_collected_cands, already_collected_cands)
       /\ dCandidates' = Append(dCandidates, [mentions |-> asked, wk_cands |-> r.wk_cands])
       /\ match_calls' = [m \in Mentions |-> match_calls[m] + Occurrences(r.computed, m)]
       /\ sentence_id' = sentence_id + 1

\* Experiment.prepare_data, one pass of the loop over dMentionsPred.
PrepareDataSentence ==
    /\ sentence_id < MaxSentences
    /\ \E pred_mentions_sent \in Batches :
          CallFindCandidates(pred_mentions_sent, pred_mentions_sent)
    /\ UNCHANGED <<linkVars, appVars, gazVars, matchVars, extVars>>

\* prepare_rel_trainset: the mentions are made unique, list(set(...)), in
\* an order the set decides, and looked up in one call.
PrepareRelTrainset ==
    /\ sentence_id < MaxSentences
    /\ \E batch \in Batches :
          \E all_mentions \in Orderings(Range(batch)) :
              CallFindCandidates(all_mentions, batch)
    /\ UNCHANGED <<linkVars, appVars, gazVars, matchVars, extVars>>

NextRank == PrepareDataSentence \/ PrepareRelTrainset

SpecRank == InitRank /\ [][NextRank]_vars

Asked(m) == {s \in DOMAIN dCandidates : m \in Range(dCandidates[s].mentions)}

-----------------------------------------------------------------------------
(* C9 *)

\* C9: over any sequence of find_candidates calls whose returned cache is
\* handed to the next call, the match computation has run at most once per
\* raw surface form, exactly once for a form that was asked for, and every
\* call that asked for a form was given the same result for it.
C9_MatchOncePerSurfaceForm ==
    sentence_id > 0 =>
        \A m \in Mentions :
            /\ match_calls[m] <= 1
            /\ Asked(m) # {} => match_calls[m] = 1
            /\ \A s, t \in Asked(m) :
                  /\ Normalize(m) \in DOMAIN dCandidates[s].wk_cands
                  /\ dCandidates[s].wk_cands[Normalize(m)]
                         = dCandidates[t].wk_cands[Normalize(m)]

\* A surface form asked for twice in the first batch and again in the
\* second, computed once.
C9_Witness ==
    /\ sentence_id = 2
    /\ dCandidates[1].mentions = <<"London", "London">>
    /\ "London" \in Range(dCandidates[2].mentions)
    /\ match_calls["London"] = 1


-----------------------------------------------------------------------------
(* The API of app/run_local_app.py: one process, one event loop, one global
   pipeline object (geoparser) whose ranker every request shares. *)

Requests == 1..MaxRequests
Endpoints == {"/candidates", "/health"}
Toponyms == {"London", "Lvndon"}
ApiQueries == [endpoint : Endpoints, toponym : Toponyms]

\* Handlers declared with a plain def are run in a thread pool, each as
\* soon as its request arrives.
ThreadPoolFree == TRUE
\* The handlers are coroutines (async def) whose bodies hold no await: the
\* event loop starts one only when no other is running, and runs it to its
\* return.
EventLoopFree == running = 0

InFindCandidates(r) == pc[r] \in {"lookup", "compute"}

InitApp ==
    /\ linking_resources = <<>>
    /\ dict_mention = NoCall
    /\ result = NoResult
    /\ already_collected_cands = <<>>
    /\ match_calls = [m \in Mentions |-> 0]
    /\ dCandidates = <<>>
    /\ sentence_id = 0
    /\ pc = [r \in Requests |-> "waiting"]
    /\ running = 0
    /\ api_query \in [Requests -> ApiQueries]
    /\ IdleGaz
    /\ IdleMatch
    /\ IdleExt

\* The event loop starts the handler of a request: run_candidate_selection
\* enters find_candidates, healthcheck has only its return ahead.
StartHandler(r) ==
    /\ pc[r] = "waiting"
    /\ EventLoopFree
    /\ running' = r
    /\ pc' = [pc EXCEPT ![r] =
                 IF api_query[r].endpoint = "/candidates" THEN "lookup" ELSE "respond"]
    /\ UNCHANGED <<linkVars, rankVars, api_query, gazVars, matchVars, extVars>>

\* find_candidates reads the cache of the shared ranker.
CacheRead(r) ==
    /\ pc[r] = "lookup"
    /\ pc' = [pc EXCEPT ![r] =
                 IF InCache(already_collected_cands, api_query[r].toponym)
                 THEN "respond" ELSE "compute"]
    /\ UNCHANGED <<linkVars, rankVars, running, api_query, gazVars, matchVars, extVars>>

\* The match is computed; the shared cache may be written in place (the
\* handler keeps only element [0] of the returned pair).
CacheWrite(r) ==
    /\ pc[r] = "compute"
    /\ LET m == api_query[r].toponym
       IN /\ match_calls' = [match_calls EXCEPT ![m] = @ + 1]
          /\ already_collected_cands' \in
                {already_collected_cands,
                 [k \in DOMAIN already_collected_cands \cup {m} |->
                     IF k = m THEN Match(m) ELSE already_collected_cands[k]]}
    /\ pc' = [pc EXCEPT ![r] = "respond"]
    /\ UNCHANGED <<linkVars, dCandidates, sentence_id, running, api_query,
                   gazVars, matchVars, extVars>>

\* The handler returns its response and the event loop is free again.
Respond(r) ==
    /\ pc[r] = "respond"
    /\ pc' = [pc EXCEPT ![r] = "done"]
    /\ running' = IF running = r THEN 0 ELSE running
    /\ UNCHANGED <<linkVars, rankVars, api_query, gazVars, matchVars, extVars>>

NextApp ==
    \E r \in Requests :
        \/ StartHandler(r)
        \/ CacheRead(r)
        \/ CacheWrite(r)
        \/ Respond(r)

SpecApp == InitApp /\ [][NextApp]_vars

-----------------------------------------------------------------------------
(* C10 *)

\* C10: no two requests are inside find_candidates on the shared ranker at
\* once: while one request reads or writes the cache, every other request
\* is waiting or done, so no read interleaves with another's write.
C10_CacheAccessSerialized ==
    \A r \in Requests :
        InFindCandidates(r) =>
            /\ running = r
            /\ \A o \in Requests \ {r} : pc[o] \in {"waiting", "done"}

\* A request reads the shared cache that an earlier request has written,
\* while a third request waits for the event loop.
C10_Witness ==
    \E r, o, w \in Requests :
        /\ pc[o] = "done"
        /\ pc[r] = "lookup"
        /\ pc[w] = "waiting"
        /\ api_query[w].endpoint = "/candidates"
        /\ api_query[r].toponym \in DOMAIN already_collected_cands

-----------------------------------------------------------------------------
(* load_resources (examples/leven+REL.py): loading and filtering the        *)
(* gazetteer                                                                *)

\* Surface forms an identifier is listed under.  Whether ", " or " (" occurs
\* in a form is a fact about its text, tabulated here.
PlainMentions == {"London", "Londres"}
CommaMentions == {"London, England", "London, Ontario"}
ParenMentions == {"London (Ontario)"}

MentionsOf(wk) ==
    IF wk = "Q84" THEN {"London", "Londres", "London, England"}
    ELSE {"London", "London, Ontario", "London (Ontario)"}

\* wikidata_to_mentions_normalized.json: id -> {mention -> relevance}; an
\* identifier that is listed has at least one mention.
MentionCounts(wk) == UNION {[S -> 1..MaxCount] : S \in (SUBSET MentionsOf(wk)) \ {{}}}

RawWikidataToMentions ==
    UNION {{w \in [W -> UNION {MentionCounts(wk) : wk \in Ids}]
            : \A wk \in W : w[wk] \in MentionCounts(wk)}
           : W \in SUBSET Ids}

\* mentions_to_wikidata_normalized.json holds the same associations keyed by
\* mention (spec 3: the two directions describe one bipartite mapping).
Transpose(w2m) ==
    [m \in UNION {DOMAIN w2m[wk] : wk \in DOMAIN w2m} |->
        [wk \in {k \in DOMAIN w2m : m \in DOMAIN w2m[k]} |-> w2m[wk][m]]]

ResourceFiles ==
    {[wikidata_to_mentions |-> w, mentions_to_wikidata |-> Transpose(w)]
     : w \in RawWikidataToMentions}

\* The thresholds a caller configures (tests/test_ranking.py:37-40, with a
\* stricter pair next to them); relevances are on the scale of the counts.
TopMentions == {1, 3}
MinimumRelv == {1, 2}
WikiFilterings == [top_mentions : TopMentions, minimum_relv : MinimumRelv]

Methods == {"mostpopular", "levenshtein"}
\* leven+REL.py:86
ParallelMethods == {"partialmatch", "levenshtein"}

\* Only the comma qualifier is recognised.
IsQualifiedCommaOnly(x) == x \in CommaMentions
\* leven+REL.py:58: ", " in x or " (" in x
IsQualified(x) == x \in CommaMentions \/ x \in ParenMentions

\* leven+REL.py:54-60
Stripped(wikipedia_mentions) ==
    [x \in {y \in DOMAIN wikipedia_mentions : ~IsQualified(y)} |-> wikipedia_mentions[x]]

\* No fallback: an identifier may lose every mention.
SurvivingNoFallback(wikipedia_mentions) == Stripped(wikipedia_mentions)
\* Each pass first drops the identifier's least frequent mentions.
SurvivingAboveLeast(wikipedia_mentions) ==
    LET above == {x \in DOMAIN wikipedia_mentions :
                     \E y \in DOMAIN wikipedia_mentions :
                         wikipedia_mentions[y] < wikipedia_mentions[x]}
        base == IF above # {} THEN [x \in above |-> wikipedia_mentions[x]]
                ELSE wikipedia_mentions
    IN IF DOMAIN Stripped(base) # {} THEN Stripped(base) ELSE base
\* leven+REL.py:62-67: the stripped mentions, unless none is left
Surviving(wikipedia_mentions) ==
    IF DOMAIN Stripped(wikipedia_mentions) # {}
    THEN Stripped(wikipedia_mentions)
    ELSE wikipedia_mentions

\* The entry of a mention is replaced instead of extended.
InsertOverwrite(m2w, m, wk, c) ==
    [x \in DOMAIN m2w \cup {m} |-> IF x = m THEN (wk :> c) ELSE m2w[x]]
\* leven+REL.py:70-77
Insert(m2w, m, wk, c) ==
    IF m \in DOMAIN m2w
    THEN [m2w EXCEPT ![m] = (wk :> c) @@ @]
    ELSE (m :> (wk :> c)) @@ m2w

\* leven+REL.py:69-77, the inner loop over the mentions kept for wk
RECURSIVE InsertMentions(_, _, _, _)
InsertMentions(m2w, wk, kept, todo) ==
    IF todo = {} THEN m2w
    ELSE LET m == CHOOSE x \in todo : TRUE
         IN InsertMentions(Insert(m2w, m, wk, kept[m]), wk, kept, todo \ {m})

\* leven+REL.py:50-80, the loop over the identifiers
RECURSIVE FilterLoop(_, _, _)
FilterLoop(w2m, acc, todo) ==
    IF todo = {} THEN acc
    ELSE LET wk == CHOOSE x \in todo : TRUE
             kept == Surviving(w2m[wk])
         IN FilterLoop(w2m,
                [wikidata_to_mentions |-> (wk :> kept) @@ acc.wikidata_to_mentions,
                 mentions_to_wikidata |->
                     InsertMentions(acc.mentions_to_wikidata, wk, kept, DOMAIN kept)],
                todo \ {wk})

Filtered(w2m) ==
    FilterLoop(w2m, [wikidata_to_mentions |-> <<>>, mentions_to_wikidata |-> <<>>],
               DOMAIN w2m)

\* leven+REL.py:27-90; pandarallel is never imported in the file.
load_resources(meth, fs) ==
    LET f == Filtered(fs.wikidata_to_mentions)
    IN IF meth \in ParallelMethods
       THEN Raised("NameError")
       ELSE Returned(<<f.mentions_to_wikidata, f.wikidata_to_mentions>>)

-----------------------------------------------------------------------------
(* SpecGaz: the gazetteer is loaded and filtered, then filtered again *)

InitGaz ==
    /\ linking_resources = <<>>
    /\ dict_mention = NoCall
    /\ result = NoResult
    /\ IdleRank
    /\ IdleApp
    /\ files \in ResourceFiles
    /\ method \in Methods
    /\ wiki_filtering \in WikiFilterings
    /\ mentions_to_wikidata = <<>>
    /\ wikidata_to_mentions = <<>>
    /\ passes = 0
    /\ IdleMatch
    /\ IdleExt

\* leven+REL.py:92
LoadResources ==
    /\ passes = 0
    /\ result = NoResult
    /\ result' = load_resources(method, files)
    /\ IF result'.raised = "none"
       THEN /\ mentions_to_wikidata' = result'.value[1]
            /\ wikidata_to_mentions' = result'.value[2]
            /\ passes' = 1
       ELSE UNCHANGED <<mentions_to_wikidata, wikidata_to_mentions, passes>>
    /\ UNCHANGED <<linking_resources, dict_mention, rankVars, appVars,
                   files, method, wiki_filtering, matchVars, extVars>>

\* The filter of leven+REL.py:49-80 run over the pair it produced.
Refilter ==
    /\ passes = 1
    /\ LET f == Filtered(wikidata_to_mentions)
       IN /\ mentions_to_wikidata' = f.mentions_to_wikidata
          /\ wikidata_to_mentions' = f.wikidata_to_mentions
    /\ passes' = 2
    /\ UNCHANGED <<linkVars, rankVars, appVars, files, method, wiki_filtering,
                   matchVars, extVars>>

NextGaz == LoadResources \/ Refilter

SpecGaz == InitGaz /\ [][NextGaz]_vars

-----------------------------------------------------------------------------
(* Claims on the gazetteer filter *)

Loaded == passes >= 1
Raw == files.wikidata_to_mentions

\* The (mention, id, count) associations of each direction.
AssocW(w2m) ==
    UNION {{<<m, wk, w2m[wk][m]>> : m \in DOMAIN w2m[wk]} : wk \in DOMAIN w2m}
AssocM(m2w) ==
    UNION {{<<m, wk, m2w[m][wk]>> : wk \in DOMAIN m2w[m]} : m \in DOMAIN m2w}

RawAssoc == AssocW(Raw) \cup AssocM(files.mentions_to_wikidata)
Dropped == RawAssoc \ (AssocW(wikidata_to_mentions) \cup AssocM(mentions_to_wikidata))

\* A surface form carries a qualifier when it is not a plain name.
Qualified(m) == m \notin PlainMentions
AllQualified(wk) == \A x \in DOMAIN Raw[wk] : Qualified(x)
FellBack(wk) ==
    /\ wk \in DOMAIN wikidata_to_mentions
    /\ AllQualified(wk)
    /\ wikidata_to_mentions[wk] = Raw[wk]

\* C11: filtering the filtered pair again, under whatever thresholds are
\* configured, gives exactly the pair the first filtering gave.
C11_FilterIdempotent ==
    passes = 2 =>
        /\ mentions_to_wikidata = Filtered(Raw).mentions_to_wikidata
        /\ wikidata_to_mentions = Filtered(Raw).wikidata_to_mentions

C11_Witness ==
    /\ passes = 2
    /\ Dropped # {}
    /\ \E wk \in DOMAIN Raw : FellBack(wk)

C13_NoQualifiedSurvives ==
    Loaded =>
        /\ \A m \in DOMAIN mentions_to_wikidata : ~Qualified(m)
        /\ \A wk \in DOMAIN wikidata_to_mentions :
              \A m \in DOMAIN wikidata_to_mentions[wk] : ~Qualified(m)

\* C13 amended: a qualified mention survives only under an identifier all of
\* whose raw mentions are qualified, and such an identifier keeps all of
\* them; every other identifier keeps no qualified mention.
C13_QualifiedOnlyByFallback ==
    Loaded =>
        /\ \A wk \in DOMAIN wikidata_to_mentions :
              IF AllQualified(wk)
              THEN wikidata_to_mentions[wk] = Raw[wk]
              ELSE \A m \in DOMAIN wikidata_to_mentions[wk] : ~Qualified(m)
        /\ \A m \in DOMAIN mentions_to_wikidata :
              Qualified(m) => \A wk \in DOMAIN mentions_to_wikidata[m] : AllQualified(wk)

C13_Witness ==
    /\ passes = 1
    /\ \E wk \in DOMAIN Raw : FellBack(wk) /\ Cardinality(DOMAIN Raw[wk]) = 2
    /\ \E wk \in DOMAIN Raw :
          /\ ~AllQualified(wk)
          /\ \E m \in DOMAIN Raw[wk] : Qualified(m)

\* C14: after filtering, a mention maps to an identifier with count c in
\* mentions_to_wikidata exactly when the identifier maps to the mention
\* with count c in wikidata_to_mentions.
C14_DirectionsConsistent ==
    Loaded => AssocM(mentions_to_wikidata) = AssocW(wikidata_to_mentions)

C14_Witness ==
    /\ passes = 1
    /\ \E m \in DOMAIN mentions_to_wikidata :
          /\ DOMAIN mentions_to_wikidata[m] = Ids
          /\ mentions_to_wikidata[m]["Q84"] # mentions_to_wikidata[m]["Q92561"]

\* C15: after filtering with top_mentions = N and minimum_relv = r, every
\* identifier keeps at most N mentions, no unqualified mention it lost is
\* more frequent than one it kept, and no kept mention is below r.
C15_TopMentionsAndMinimumRelv ==
    Loaded =>
        \A wk \in DOMAIN wikidata_to_mentions :
            LET kept == wikidata_to_mentions[wk]
            IN /\ Cardinality(DOMAIN kept) <= wiki_filtering.top_mentions
               /\ \A m \in DOMAIN kept :
                     /\ kept[m] >= wiki_filtering.minimum_relv
                     /\ \A x \in DOMAIN Raw[wk] \ DOMAIN kept :
                           ~Qualified(x) => Raw[wk][x] <= kept[m]

-----------------------------------------------------------------------------
(* The pairwise string strategies of the Ranker: check_if_contained and     *)
(* damlev_dist (spec 4.2)                                                   *)

MaxStrLen == 3

\* Strings are sequences of characters over a small alphabet with one
\* letter in both cases.
Alphabet == {"a", "A", "b"}
Strings == UNION {[1..n -> Alphabet] : n \in 1..MaxStrLen}

\* The comparison target: a labelled record {"mentions": ...} (a row of the
\* variants frame), or a bare string.
Series(s) == [type |-> "Series", mentions |-> s]
BareString(s) == [type |-> "str", chars |-> s]
Rows == {Series(s) : s \in Strings} \cup {BareString(s) : s \in Strings}

Strategies == {"check_if_contained", "damlev_dist"}

None == [none |-> TRUE]

\* No case folding.
LowerUnfolded(c) == c
\* str.lower(), character by character
Lower(c) == IF c = "A" THEN "a" ELSE c
lower(s) == [i \in DOMAIN s |-> Lower(s[i])]

\* s1 in s2: s1 occurs in s2 as a contiguous run
In(s1, s2) ==
    \E i \in 0..(Len(s2) - Len(s1)) : SubSeq(s2, i + 1, i + Len(s1)) = s1

\* The bare string is read as if it were the "mentions" field.
ReadMentionsCoerced(target) ==
    Returned(IF target.type = "Series" THEN target.mentions ELSE target.chars)
\* row["mentions"]: indexing a str with a str raises TypeError
ReadMentions(target) ==
    IF target.type = "Series" THEN Returned(target.mentions) ELSE Raised("TypeError")

\* The query's length over the target's, whichever contains the other.
ContainedScoreOneWay(s, mentions) ==
    IF In(lower(s), lower(mentions)) \/ In(lower(mentions), lower(s))
    THEN Frac(Len(s), Len(mentions))
    ELSE None
\* The containment score: length(shorter)/length(longer) when one string
\* occurs in the other, case-insensitively; undefined (None) otherwise.
ContainedScore(s, mentions) ==
    IF In(lower(s), lower(mentions)) THEN Frac(Len(s), Len(mentions))
    ELSE IF In(lower(mentions), lower(s)) THEN Frac(Len(mentions), Len(s))
    ELSE None

check_if_contained(s, target) ==
    LET mentions == ReadMentions(target)
    IN IF mentions.raised # "none" THEN mentions
       ELSE Returned(ContainedScore(s, mentions.value))

Min(S) == CHOOSE x \in S : \A y \in S : x <= y
Max(a, b) == IF a >= b THEN a ELSE b

\* Letters differing only in case cost nothing.
SubstitutionCostFolded(x, y) == IF Lower(x) = Lower(y) THEN 0 ELSE 1
SubstitutionCost(x, y) == IF x = y THEN 0 ELSE 1

\* The Damerau-Levenshtein distance of the prefixes a[1..i] and b[1..j]:
\* insertions, deletions, substitutions and transpositions of neighbours.
RECURSIVE Distance(_, _, _, _)
Distance(a, b, i, j) ==
    IF i = 0 THEN j
    ELSE IF j = 0 THEN i
    ELSE Min({Distance(a, b, i - 1, j) + 1,
              Distance(a, b, i, j - 1) + 1,
              Distance(a, b, i - 1, j - 1) + SubstitutionCost(a[i], b[j])}
             \cup (IF i > 1 /\ j > 1 /\ a[i] = b[j - 1] /\ a[i - 1] = b[j]
                   THEN {Distance(a, b, i - 2, j - 2) + 1}
                   ELSE {}))

damerau_levenshtein_distance(a, b) == Distance(a, b, Len(a), Len(b))

\* 1 - distance / max(len(A), len(B))
SimilarityScore(a, b) ==
    Frac(Max(Len(a), Len(b)) - damerau_levenshtein_distance(a, b), Max(Len(a), Len(b)))

damlev_dist(s, target) ==
    LET mentions == ReadMentions(target)
    IN IF mentions.raised # "none" THEN mentions
       ELSE Returned(SimilarityScore(s, mentions.value))

-----------------------------------------------------------------------------
(* SpecStr: one strategy applied to a query and a comparison target *)

InitStr ==
    /\ linking_resources = <<>>
    /\ dict_mention = NoCall
    /\ result = NoResult
    /\ IdleRank
    /\ IdleApp
    /\ IdleGaz
    /\ strategy \in Strategies
    /\ query \in Strings
    /\ row \in Rows
    /\ queried = <<>>
    /\ IdleExt

CheckIfContained ==
    /\ result = NoResult
    /\ strategy = "check_if_contained"
    /\ result' = check_if_contained(query, row)
    /\ UNCHANGED <<linking_resources, dict_mention, rankVars, appVars, gazVars,
                   matchVars, extVars>>

DamlevDist ==
    /\ result = NoResult
    /\ strategy = "damlev_dist"
    /\ result' = damlev_dist(query, row)
    /\ UNCHANGED <<linking_resources, dict_mention, rankVars, appVars, gazVars,
                   matchVars, extVars>>

NextStr == CheckIfContained \/ DamlevDist

SpecStr == InitStr /\ [][NextStr]_vars

-----------------------------------------------------------------------------
(* Claims on the string strategies *)

Compared(f) == strategy = f /\ result # NoResult
Scored(f) == Compared(f) /\ row.type = "Series" /\ result.raised = "none"
Score == result.value
IsNone(x) == "none" \in DOMAIN x

SameScore(x, y) ==
    IF IsNone(x) \/ IsNone(y) THEN IsNone(x) /\ IsNone(y) ELSE FracEq(x, y)

\* Two letters are the same up to case.
SameLetter(c, d) == c = d \/ {c, d} = {"a", "A"}
\* x occurs in y as a contiguous run of letters, case ignored.
OccursIn(x, y) ==
    \E i \in 0..(Len(y) - Len(x)) : \A k \in 1..Len(x) : SameLetter(x[k], y[i + k])

Shorter(x, y) == IF Len(x) <= Len(y) THEN Len(x) ELSE Len(y)
Longer(x, y) == IF Len(x) <= Len(y) THEN Len(y) ELSE Len(x)

\* C16: the containment score of A against {"mentions": B} equals the
\* containment score of B against {"mentions": A}, both being undefined
\* when neither contains the other.
C16_ContainmentSymmetric ==
    Compared("check_if_contained") /\ row.type = "Series" =>
        LET swapped == check_if_contained(row.mentions, Series(query))
        IN /\ result.raised = "none"
           /\ swapped.raised = "none"
           /\ SameScore(Score, swapped.value)

C16_Witness ==
    /\ Scored("check_if_contained")
    /\ ~IsNone(Score)
    /\ Len(query) > Len(row.mentions)

\* C17: the containment score is len(shorter)/len(longer) when one string
\* occurs in the other as a contiguous run, case ignored, and None when
\* neither does.
C17_ContainmentScore ==
    Compared("check_if_contained") /\ row.type = "Series" =>
        /\ result.raised = "none"
        /\ IF OccursIn(query, row.mentions) \/ OccursIn(row.mentions, query)
           THEN /\ ~IsNone(Score)
                /\ FracEq(Score, Frac(Shorter(query, row.mentions),
                                      Longer(query, row.mentions)))
           ELSE IsNone(Score)

\* A containment that exists only once case is ignored.
C17_Witness ==
    /\ Scored("check_if_contained")
    /\ ~IsNone(Score)
    /\ Len(query) < Len(row.mentions)
    /\ ~In(query, row.mentions)

\* C18: the edit-distance score is 1.0 exactly when the two strings are
\* equal, and 0.0 exactly when their Damerau-Levenshtein distance is the
\* length of the longer one.
C18_DamlevOneAndZero ==
    Compared("damlev_dist") /\ row.type = "Series" =>
        /\ result.raised = "none"
        /\ FracEq(Score, One) <=> query = row.mentions
        /\ FracEq(Score, Zero) <=>
              damerau_levenshtein_distance(query, row.mentions)
                  = Longer(query, row.mentions)

\* Nothing in common and different lengths, as "uityity" and "asdasd".
C18_Witness ==
    /\ Scored("damlev_dist")
    /\ FracEq(Score, Zero)
    /\ Len(query) = Len(row.mentions) + 1
    /\ Len(row.mentions) > 1

\* C19: with a bare string as the comparison target, damlev_dist and
\* check_if_contained raise TypeError; no score is returned.
C19_BareStringRaises ==
    \A f \in Strategies :
        Compared(f) /\ row.type = "str" => result = Raised("TypeError")

\* The bare string equals the query: coerced, it would score 1.0.
C19_Witness ==
    /\ Compared("damlev_dist")
    /\ row = BareString(query)
    /\ result.raised = "TypeError"

-----------------------------------------------------------------------------
(* Ranker.perfect_match (spec 4.2, the exact strategy) *)

\* The gazetteers the ranker may hold: any of the surface forms is listed
\* or not; what a form maps to plays no part in the exact strategy.
ExactGazetteers == UNION {[V -> {[wk \in {"Q84"} |-> MaxCount]}] : V \in SUBSET Mentions}

\* A gazetteer variant is matched up to case, and returned as listed.
ExactMatchFolded(q, m2w) ==
    IF \E v \in DOMAIN m2w : Normalize(v) = Normalize(q)
    THEN [v \in {CHOOSE x \in DOMAIN m2w : Normalize(x) = Normalize(q)} |-> One]
    ELSE <<>>
\* The query itself with score 1.0 when the gazetteer lists exactly that
\* string, no candidate otherwise.
ExactMatch(q, m2w) == IF q \in DOMAIN m2w THEN [v \in {q} |-> One] ELSE <<>>

\* The loop over the queries; a query the cache holds is not matched again.
RECURSIVE PerfectLoop(_, _, _, _)
PerfectLoop(qs, m2w, candidates, cache) ==
    IF qs = <<>> THEN [candidates |-> candidates, already_collected_cands |-> cache]
    ELSE LET q == Head(qs)
             found == IF q \in DOMAIN cache THEN cache[q] ELSE ExactMatch(q, m2w)
         IN PerfectLoop(Tail(qs), m2w,
                        (q :> found) @@ candidates,
                        IF q \in DOMAIN cache THEN cache ELSE (q :> found) @@ cache)

\* perfect_match(queries) returns (candidates, already_collected_cands),
\* tests/test_ranking.py:65.
perfect_match(qs, m2w, cache) ==
    LET done == PerfectLoop(qs, m2w, <<>>, cache)
    IN Returned(<<done.candidates, done.already_collected_cands>>)

-----------------------------------------------------------------------------
(* SpecExact: perfect_match called on batches of mentions *)

InitExact ==
    /\ linking_resources = <<>>
    /\ dict_mention = NoCall
    /\ result = NoResult
    /\ IdleRank
    /\ IdleApp
    /\ mentions_to_wikidata \in ExactGazetteers
    /\ wikidata_to_mentions = Transpose(mentions_to_wikidata)
    /\ files = [wikidata_to_mentions |-> wikidata_to_mentions,
                mentions_to_wikidata |-> mentions_to_wikidata]
    /\ method = "perfectmatch"
    /\ wiki_filtering \in WikiFilterings
    /\ passes = 1
    /\ strategy = "perfect_match"
    /\ query = <<>>
    /\ row = <<>>
    /\ queried = <<>>
    /\ IdleExt

\* tests/test_ranking.py:65-71
PerfectMatch ==
    /\ result = NoResult
    /\ \E qs \in Batches :
          /\ queried' = qs
          /\ result' = perfect_match(qs, mentions_to_wikidata, already_collected_cands)
    /\ already_collected_cands' = result'.value[2]
    /\ UNCHANGED <<linking_resources, dict_mention, match_calls, dCandidates,
                   sentence_id, appVars, gazVars, strategy, query, row, extVars>>

\* The candidates are handed on and the next batch is taken.
NextQueries ==
    /\ result # NoResult
    /\ result' = NoResult
    /\ queried' = <<>>
    /\ UNCHANGED <<linking_resources, dict_mention, rankVars, appVars, gazVars,
                   strategy, query, row, extVars>>

NextExact == PerfectMatch \/ NextQueries

SpecExact == InitExact /\ [][NextExact]_vars

\* C20: for every mention asked for, perfect_match returns the variant equal
\* to the mention with score 1.0 when the gazetteer lists exactly that
\* string, case included, and no candidate otherwise; a variant that
\* differs from the mention is never returned.
C20_PerfectMatchExact ==
    strategy = "perfect_match" /\ result # NoResult =>
        /\ result.raised = "none"
        /\ DOMAIN result.value[1] = Range(queried)
        /\ \A q \in Range(queried) :
              LET found == result.value[1][q]
              IN /\ DOMAIN found \subseteq {q}
                 /\ q \in DOMAIN mentions_to_wikidata =>
                       /\ DOMAIN found = {q}
                       /\ FracEq(found[q], One)
                 /\ q \notin DOMAIN mentions_to_wikidata => DOMAIN found = {}

\* "London" is listed and found; "LONDON" differs in case only and is not.
C20_Witness ==
    /\ strategy = "perfect_match"
    /\ result # NoResult
    /\ DOMAIN mentions_to_wikidata = {"London"}
    /\ queried = <<"London", "LONDON">>
    /\ DOMAIN result.value[1]["London"] = {"London"}
    /\ DOMAIN result.value[1]["LONDON"] = {}

-----------------------------------------------------------------------------
(* Linker.rel_disambiguation and the reldisamb branch of perform_linking *)

MaxReported == 2

\* The documents of mentions_dataset, in its iteration order.
Documents == <<"doc1", "doc2">>

\* What the scorer reports for one mention: the surface form, the Wikipedia
\* title predicted (or its no-entity output "NIL"), and conf_ed in units of
\* 0.0001 or absent (-1).  The last record lacks its "prediction".
Reported ==
    {[mention |-> "London", prediction |-> "London", conf_ed |-> 9877],
     [mention |-> "London", prediction |-> "NIL", conf_ed |-> -1],
     [mention |-> "Leeds", prediction |-> "New_York", conf_ed |-> 1234],
     [mention |-> "Leeds", prediction |-> "AC/DC", conf_ed |-> 10000],
     [mention |-> "London"]}

ReportedLists == UNION {[1..n -> Reported] : n \in 1..MaxReported}

\* link_predictions: sentence -> list of reported mentions, as an ordered
\* dict; or the call of predict raises.
LinkPredictions ==
    {<<>>}
    \cup {<<[sent |-> 0, mentions |-> l]>> : l \in ReportedLists}
    \cup {<<[sent |-> 0, mentions |-> l],
            [sent |-> 1,
             mentions |-> <<[mention |-> "London", prediction |-> "London",
                             conf_ed |-> 9877]>>]>> : l \in ReportedLists}

ScorerOutputs ==
    {[raised |-> "none", link_predictions |-> lp] : lp \in LinkPredictions}
    \cup {[raised |-> "RuntimeError", link_predictions |-> <<>>]}

\* linking_resources as a caller may hand it to the Linker: with the
\* Wikipedia-to-Wikidata table keyed by encoded title, with a table keyed
\* by raw title, or as load_resources leaves it (linking.py:62-70, the code
\* loading the table is commented out at 90-101).
RelResources ==
    {[wikipedia2wikidata |->
         ("London" :> "Q84") @@ ("New%20York" :> "Q60") @@ ("sha224(AC/DC)" :> "Q27585")],
     [wikipedia2wikidata |->
         ("London" :> "Q84") @@ ("New_York" :> "Q60") @@ ("AC/DC" :> "Q27585")],
     [mentions_to_wikidata |-> <<>>]}

\* linking.py:215-217: urllib.parse.quote(title.replace("_", " ")); quote
\* leaves "/" as it is.
PercentEncoded(title) ==
    CASE title = "New_York" -> "New%20York"
      [] OTHER -> title

HasSlash(title) == title = "AC/DC"
Sha224(title) == "sha224(" \o title \o ")"

\* linking.py:215-221
TitleKey(returned_prediction) ==
    IF HasSlash(PercentEncoded(returned_prediction))
    THEN Sha224(PercentEncoded(returned_prediction))
    ELSE PercentEncoded(returned_prediction)

\* An unmapped title is kept as the prediction.
WikidataOfKeepTitle(table, key) == IF key \in DOMAIN table THEN table[key] ELSE key
\* linking.py:222-224: .get(percent_encoded_title, "NIL")
WikidataOf(table, key) == IF key \in DOMAIN table THEN table[key] ELSE "NIL"

\* linking.py:227: round(m.get("conf_ed", 0.0), 3), in units of 0.0001
Round3(c) == ((c + 5) \div 10) * 10
Confidence3(m) == IF m.conf_ed = -1 THEN 0 ELSE Round3(m.conf_ed)

\* The first pair reported for a surface form is kept.
PutIfAbsent(d, doc, sent, mention, pair) ==
    IF doc \in DOMAIN d /\ sent \in DOMAIN d[doc] /\ mention \in DOMAIN d[doc][sent]
    THEN d
    ELSE IF doc \in DOMAIN d
         THEN IF sent \in DOMAIN d[doc]
              THEN [d EXCEPT ![doc][sent] = (mention :> pair) @@ @]
              ELSE [d EXCEPT ![doc] = (sent :> (mention :> pair)) @@ @]
         ELSE (doc :> (sent :> (mention :> pair))) @@ d
\* linking.py:229-252
Put(d, doc, sent, mention, pair) ==
    IF doc \in DOMAIN d
    THEN IF sent \in DOMAIN d[doc]
         THEN [d EXCEPT ![doc][sent] = (mention :> pair) @@ @]
         ELSE [d EXCEPT ![doc] = (sent :> (mention :> pair)) @@ @]
    ELSE (doc :> (sent :> (mention :> pair))) @@ d

\* linking.py:210-252, the loop over the mentions reported for a sentence;
\* acc is Returned(dRELresults) or what was raised.
RECURSIVE MentionLoop(_, _, _, _, _)
MentionLoop(resources, acc, doc, sent, ms) ==
    IF ms = <<>> \/ acc.raised # "none" THEN acc
    ELSE LET m == Head(ms)
         IN IF "prediction" \notin DOMAIN m \/ "wikipedia2wikidata" \notin DOMAIN resources
            THEN Raised("KeyError")
            ELSE MentionLoop(resources,
                     Returned(Put(acc.value, doc, sent, m.mention,
                                  <<WikidataOf(resources.wikipedia2wikidata,
                                               TitleKey(m.prediction)),
                                    Confidence3(m)>>)),
                     doc, sent, Tail(ms))

\* linking.py:208-209
RECURSIVE SentenceLoop(_, _, _, _)
SentenceLoop(resources, acc, doc, lp) ==
    IF lp = <<>> \/ acc.raised # "none" THEN acc
    ELSE SentenceLoop(resources,
             MentionLoop(resources, acc, doc, Head(lp).sent, Head(lp).mentions),
             doc, Tail(lp))

\* linking.py:204-207: an exception of predict is not caught
RECURSIVE DocumentLoop(_, _, _, _)
DocumentLoop(resources, acc, outputs, i) ==
    IF i > Len(outputs) \/ acc.raised # "none" THEN acc
    ELSE IF outputs[i].raised # "none" THEN Raised(outputs[i].raised)
    ELSE DocumentLoop(resources,
             SentenceLoop(resources, acc, Documents[i], outputs[i].link_predictions),
             outputs, i + 1)

\* linking.py:172-254
rel_disambiguation(resources, outputs) ==
    DocumentLoop(resources, Returned(<<>>), outputs, 1)

\* int(row["sentence_pos"])
ToInt(sentence_pos) == IF sentence_pos = "0" THEN 0 ELSE 1
ToStr(sent) == IF sent = 0 THEN "0" ELSE "1"

\* linking.py:163-165
RowLookup(d, r) ==
    IF /\ r.article_id \in DOMAIN d
       /\ ToInt(r.sentence_pos) \in DOMAIN d[r.article_id]
       /\ r.pred_mention \in DOMAIN d[r.article_id][ToInt(r.sentence_pos)]
    THEN Returned(d[r.article_id][ToInt(r.sentence_pos)][r.pred_mention])
    ELSE Raised("KeyError")

\* linking.py:160-170
perform_linking(resources, outputs, rows) ==
    LET rel == rel_disambiguation(resources, outputs)
    IN IF rel.raised # "none" THEN rel
       ELSE IF \E i \in DOMAIN rows : RowLookup(rel.value, rows[i]).raised # "none"
       THEN Raised("KeyError")
       ELSE Returned([i \in DOMAIN rows |->
                [article_id |-> rows[i].article_id,
                 sentence_pos |-> rows[i].sentence_pos,
                 pred_mention |-> rows[i].pred_mention,
                 pred_wqid |-> RowLookup(rel.value, rows[i]).value[1],
                 pred_wqid_score |-> RowLookup(rel.value, rows[i]).value[2]]])

\* The rows of test_df: one per mention handed to the scorer, which reports
\* them back sentence by sentence.
RECURSIVE RowsOfSentences(_, _)
RowsOfSentences(doc, lp) ==
    IF lp = <<>> THEN <<>>
    ELSE [k \in DOMAIN Head(lp).mentions |->
             [article_id |-> doc, sentence_pos |-> ToStr(Head(lp).sent),
              pred_mention |-> Head(lp).mentions[k].mention]]
         \o RowsOfSentences(doc, Tail(lp))

RECURSIVE RowsOf(_, _)
RowsOf(outputs, i) ==
    IF i > Len(outputs) THEN <<>>
    ELSE RowsOfSentences(Documents[i], outputs[i].link_predictions) \o RowsOf(outputs, i + 1)

-----------------------------------------------------------------------------
(* SpecRel: perform_linking with the delegated scorer *)

InitRel ==
    /\ linking_resources \in RelResources
    /\ dict_mention = NoCall
    /\ result = NoResult
    /\ IdleRank
    /\ IdleApp
    /\ IdleGaz
    /\ IdleMatch
    /\ scorer \in [DOMAIN Documents -> ScorerOutputs]
    /\ test_df = RowsOf(scorer, 1)
    /\ dRELresults = NoResult
    /\ IdleJoin
    /\ IdleNer
    /\ IdleJson

PerformLinking ==
    /\ result = NoResult
    /\ dRELresults' = rel_disambiguation(linking_resources, scorer)
    /\ result' = perform_linking(linking_resources, scorer, test_df)
    /\ UNCHANGED <<linking_resources, dict_mention, rankVars, appVars, gazVars,
                   matchVars, scorer, test_df, joinVars, nerVars, jsonVars>>

NextRel == PerformLinking

SpecRel == InitRel /\ [][NextRel]_vars

-----------------------------------------------------------------------------
(* Claims on the delegated strategy *)

RelCalled == dRELresults # NoResult
RelReturned == RelCalled /\ dRELresults.raised = "none"
HasTable == "wikipedia2wikidata" \in DOMAIN linking_resources

\* The positions (document, sentence, report) of what the scorer reported.
Sentences(i) == DOMAIN scorer[i].link_predictions
Reports(i, k) == scorer[i].link_predictions[k].mentions
SentenceKey(i, k) == scorer[i].link_predictions[k].sent

\* Report j is the last one of its sentence for its surface form.
IsLast(i, k, j) ==
    \A h \in DOMAIN Reports(i, k) :
        Reports(i, k)[h].mention = Reports(i, k)[j].mention => h <= j

PairOf(i, k, j) ==
    dRELresults.value[Documents[i]][SentenceKey(i, k)][Reports(i, k)[j].mention]

HasEntry(label) == TitleKey(label) \in DOMAIN linking_resources.wikipedia2wikidata

\* C21: a label the scorer returns that has no entry in the cross-reference
\* table (under the key its title is looked up by), its no-entity output
\* included, is reported as NIL; a label with an entry is reported as the
\* identifier the table maps it to.
C21_UnmappedIsNil ==
    RelReturned =>
        \A i \in DOMAIN scorer : \A k \in Sentences(i) : \A j \in DOMAIN Reports(i, k) :
            IsLast(i, k, j) =>
                LET label == Reports(i, k)[j].prediction
                IN /\ HasTable
                   /\ HasEntry(label) =>
                         PairOf(i, k, j)[1]
                             = linking_resources.wikipedia2wikidata[TitleKey(label)]
                   /\ ~HasEntry(label) => PairOf(i, k, j)[1] = "NIL"

\* A title found under its encoded key next to the no-entity output.
C21_Witness ==
    /\ RelReturned
    /\ "doc1" \in DOMAIN dRELresults.value
    /\ 0 \in DOMAIN dRELresults.value["doc1"]
    /\ DOMAIN dRELresults.value["doc1"][0] = {"London", "Leeds"}
    /\ dRELresults.value["doc1"][0]["Leeds"][1] = "Q60"
    /\ dRELresults.value["doc1"][0]["London"][1] = "NIL"

GoodDocument(i) ==
    /\ scorer[i].raised = "none"
    /\ \A k \in Sentences(i) : \A j \in DOMAIN Reports(i, k) :
          "prediction" \in DOMAIN Reports(i, k)[j]

\* C22: when the scorer fails or returns malformed output for a document,
\* the loop goes on: rel_disambiguation returns, and the predictions of
\* every other document are in what it returns.
C22_FailedDocumentOnly ==
    RelCalled /\ HasTable =>
        /\ dRELresults.raised = "none"
        /\ \A i \in DOMAIN scorer :
              GoodDocument(i) /\ Sentences(i) # {} =>
                  /\ Documents[i] \in DOMAIN dRELresults.value
                  /\ dRELresults.value[Documents[i]]
                         = SentenceLoop(linking_resources, Returned(<<>>), Documents[i],
                                        scorer[i].link_predictions).value[Documents[i]]

\* C28: rel_disambiguation returns one (identifier, confidence) pair for
\* every document, sentence and surface form the scorer reported, the
\* confidence rounded to 3 decimals and 0.0 when absent; the pair is that of
\* the last report of the surface form in the sentence, and every row of
\* that surface form and sentence is given it.
C28_KeyedBySurfaceForm ==
    RelReturned =>
        /\ DOMAIN dRELresults.value = {Documents[i] : i \in {h \in DOMAIN scorer : Sentences(h) # {}}}
        /\ \A i \in DOMAIN scorer : \A k \in Sentences(i) :
              /\ SentenceKey(i, k) \in DOMAIN dRELresults.value[Documents[i]]
              /\ DOMAIN dRELresults.value[Documents[i]][SentenceKey(i, k)]
                     = {Reports(i, k)[j].mention : j \in DOMAIN Reports(i, k)}
              /\ \A j \in DOMAIN Reports(i, k) :
                    IsLast(i, k, j) =>
                        LET m == Reports(i, k)[j]
                            conf == PairOf(i, k, j)[2]
                        IN /\ PairOf(i, k, j)[1]
                                  = WikidataOf(linking_resources.wikipedia2wikidata,
                                               TitleKey(m.prediction))
                           /\ conf % 10 = 0
                           /\ m.conf_ed = -1 => conf = 0
                           /\ m.conf_ed # -1 => conf - m.conf_ed \in -5..5
        /\ result.raised = "none"
        /\ Len(result.value) = Len(test_df)
        /\ \A r \in DOMAIN result.value :
              \A i \in DOMAIN scorer : \A k \in Sentences(i) : \A j \in DOMAIN Reports(i, k) :
                  /\ result.value[r].article_id = Documents[i]
                  /\ ToInt(result.value[r].sentence_pos) = SentenceKey(i, k)
                  /\ result.value[r].pred_mention = Reports(i, k)[j].mention
                  /\ IsLast(i, k, j)
                  => <<result.value[r].pred_wqid, result.value[r].pred_wqid_score>>
                         = PairOf(i, k, j)

\* "London" reported twice in one sentence, first as London, then as no
\* entity: both rows are given the second pair.
C28_Witness ==
    /\ RelReturned
    /\ scorer[1].link_predictions # <<>>
    /\ Reports(1, 1) = <<[mention |-> "London", prediction |-> "London", conf_ed |-> 9877],
                         [mention |-> "London", prediction |-> "NIL", conf_ed |-> -1]>>
    /\ result.raised = "none"
    /\ result.value[1].pred_wqid = "NIL"
    /\ result.value[2].pred_wqid = "NIL"
    /\ result.value[1].pred_wqid_score = 0

-----------------------------------------------------------------------------
(* Experiment.linking_experiments: joining the disambiguated mentions back  *)
(* onto the rows of test_processed (experiment.py:396-413)                  *)

MaxRows == 2

\* Where a mention stands: sentence and character span.
Spans ==
    {[sentence_id |-> "doc1_0", char_start |-> 0, char_end |-> 6],
     [sentence_id |-> "doc1_0", char_start |-> 10, char_end |-> 15],
     [sentence_id |-> "doc1_1", char_start |-> 0, char_end |-> 6]}

TestRows == UNION {[1..n -> Spans] : n \in 1..MaxRows}

\* experiment.py:321-345, 386-394: a mention is made from a row
\* (row.to_dict()) and carries the prediction made for that row.
MentionOf(rows, i) ==
    [sentence_id |-> rows[i].sentence_id,
     char_start |-> rows[i].char_start,
     char_end |-> rows[i].char_end,
     prediction |-> "Q" \o ToString(i),
     ed_score |-> 9877,
     candidates |-> <<>>]

\* disambiguated_mentions: with the delegated scorer the mentions pass
\* through predict and format_linking_dataset (365-385), which may hand
\* back fewer or more mentions than rows; otherwise one per row.
DisambiguatedMentions(rows) ==
    UNION {{[k \in 1..n |-> MentionOf(rows, o[k])] : o \in [1..n -> DOMAIN rows]}
           : n \in 0..(MaxRows + 1)}

\* experiment.py:399-403
Matches(disamb_mention, r) ==
    /\ disamb_mention.sentence_id = r.sentence_id
    /\ disamb_mention.char_start = r.char_start
    /\ disamb_mention.char_end = r.char_end

\* experiment.py:398-411, the inner loop for one row
RECURSIVE AppendMatches(_, _)
AppendMatches(r, ms) ==
    IF ms = <<>> THEN <<>>
    ELSE (IF Matches(Head(ms), r)
          THEN <<[pred_wqid |-> Head(ms).prediction,
                  ed_score |-> Round3(Head(ms).ed_score),
                  candidates |-> Head(ms).candidates]>>
          ELSE <<>>)
         \o AppendMatches(r, Tail(ms))

\* experiment.py:396-411
RECURSIVE ToAppend(_, _)
ToAppend(rows, ms) ==
    IF rows = <<>> THEN <<>>
    ELSE AppendMatches(Head(rows), ms) \o ToAppend(Tail(rows), ms)

\* experiment.py:412-413: the list is assigned to three new columns, row by
\* row in order; pandas raises ValueError when the lengths differ.
rejoin(rows, ms) ==
    LET to_append == ToAppend(rows, ms)
    IN IF Len(to_append) # Len(rows)
       THEN Raised("ValueError")
       ELSE Returned([i \in DOMAIN rows |->
                [sentence_id |-> rows[i].sentence_id,
                 char_start |-> rows[i].char_start,
                 char_end |-> rows[i].char_end,
                 pred_wqid |-> to_append[i].pred_wqid,
                 ed_score |-> to_append[i].ed_score,
                 candidates |-> to_append[i].candidates]])

InitJoin ==
    /\ linking_resources = <<>>
    /\ dict_mention = NoCall
    /\ result = NoResult
    /\ IdleRank
    /\ IdleApp
    /\ IdleGaz
    /\ IdleMatch
    /\ IdleRel
    /\ test_processed \in TestRows
    /\ disambiguated_mentions \in DisambiguatedMentions(test_processed)
    /\ IdleNer
    /\ IdleJson

Rejoin ==
    /\ result = NoResult
    /\ result' = rejoin(test_processed, disambiguated_mentions)
    /\ UNCHANGED <<linking_resources, dict_mention, rankVars, appVars, gazVars,
                   matchVars, relVars, joinVars, nerVars, jsonVars>>

NextJoin == Rejoin

SpecJoin == InitJoin /\ [][NextJoin]_vars

MatchCount(i) ==
    Cardinality({k \in DOMAIN disambiguated_mentions :
                    /\ disambiguated_mentions[k].sentence_id = test_processed[i].sentence_id
                    /\ disambiguated_mentions[k].char_start = test_processed[i].char_start
                    /\ disambiguated_mentions[k].char_end = test_processed[i].char_end})

\* C23: when the mentions are joined back onto the rows, a row with no or
\* with several matching mentions makes the join fail; when the join
\* succeeds every row is there and carries a prediction made for a mention
\* at its own sentence and span.
C23_MismatchDetected ==
    result # NoResult =>
        /\ (\E i \in DOMAIN test_processed : MatchCount(i) # 1) => result.raised = "ValueError"
        /\ result.raised = "none" =>
              /\ Len(result.value) = Len(test_processed)
              /\ \A i \in DOMAIN test_processed :
                    \E k \in DOMAIN disambiguated_mentions :
                        /\ disambiguated_mentions[k].sentence_id = test_processed[i].sentence_id
                        /\ disambiguated_mentions[k].char_start = test_processed[i].char_start
                        /\ disambiguated_mentions[k].char_end = test_processed[i].char_end
                        /\ disambiguated_mentions[k].prediction = result.value[i].pred_wqid

-----------------------------------------------------------------------------
(* utils/ner.py: fix_startEntity and collect_named_entities *)

MaxTokens == 3

Tags == {"O", "B-LOC", "I-LOC", "B-PER", "I-PER"}

\* tag.startswith("I-"), tag[:1] == "B" and tag[2:], tabulated
StartsWithI(tag) == tag \in {"I-LOC", "I-PER"}
StartsWithB(tag) == tag \in {"B-LOC", "B-PER"}
TypeOf(tag) ==
    CASE tag \in {"B-LOC", "I-LOC"} -> "LOC"
      [] tag \in {"B-PER", "I-PER"} -> "PER"
      [] OTHER -> ""
\* "B-" + tag[2:]
WithB(tag) == IF TypeOf(tag) = "LOC" THEN "B-LOC" ELSE IF TypeOf(tag) = "PER" THEN "B-PER" ELSE "B-"

TagSequences == UNION {[1..n -> Tags] : n \in 0..MaxTokens}

\* The token predictions of a sentence (recogniser.py:276-278): word, score
\* and character offsets differ from token to token.
EntityAt(tag, i) ==
    [entity |-> tag, score |-> 9000 + i, word |-> "w" \o ToString(i),
     start |-> 10 * i, end |-> 10 * i + 5]
EntitiesOf(tags) == [i \in DOMAIN tags |-> EntityAt(tags[i], i)]

\* ner.py:445-455 and 469-476: the token with the prefix changed
Retagged(currEntity) ==
    [entity |-> WithB(currEntity.entity), score |-> currEntity.score,
     word |-> currEntity.word, start |-> currEntity.start, end |-> currEntity.end]

\* Only a token after O is looked at.
NeedsFixAfterO(prevEntity, currEntity) ==
    prevEntity.entity = "O" /\ StartsWithI(currEntity.entity)
\* ner.py:464-467
NeedsFix(prevEntity, currEntity) ==
    /\ \/ prevEntity.entity = "O"
       \/ TypeOf(prevEntity.entity) # TypeOf(currEntity.entity)
    /\ StartsWithI(currEntity.entity)

\* ner.py:458-478
RECURSIVE FixLoop(_, _, _)
FixLoop(entities, fixEntities, i) ==
    IF i > Len(entities) THEN fixEntities
    ELSE FixLoop(entities,
                 Append(fixEntities,
                        IF NeedsFix(fixEntities[i - 1], entities[i])
                        THEN Retagged(entities[i])
                        ELSE entities[i]),
                 i + 1)

\* ner.py:437-480; lEntities[0] of an empty list raises IndexError
fix_startEntity(entities) ==
    IF entities = <<>> THEN Raised("IndexError")
    ELSE Returned(FixLoop(entities,
                          <<IF StartsWithI(entities[1].entity)
                            THEN Retagged(entities[1])
                            ELSE entities[1]>>,
                          2))

\* The tokens handed to collect_named_entities: (word, tag, link, start
\* character, end character); predicted tokens carry the link "O".
TokenAt(tag, i) ==
    [word |-> "w" \o ToString(i), tag |-> tag, link |-> "O",
     start_char |-> 10 * i, end_char |-> 10 * i + 5]
TokensOf(tags) == [i \in DOMAIN tags |-> TokenAt(tags[i], i)]

\* token_link[2:]
LinkOf(token_link) == IF token_link = "O" THEN "" ELSE token_link

\* ner.py:143-157, 173-184, 190-202; offsets count from 0
Entity(ent_type, link, start_offset, end_offset, toks) ==
    [e_type |-> ent_type, link |-> link,
     start_offset |-> start_offset, end_offset |-> end_offset,
     start_char |-> toks[start_offset + 1].start_char,
     end_char |-> toks[end_offset + 1].end_char]

\* Only a change of type ends an entity.
StartsNewOnTypeChange(ent_type, token_tag) == ent_type # TypeOf(token_tag)
\* ner.py:168-170
StartsNew(ent_type, token_tag) ==
    \/ ent_type # TypeOf(token_tag)
    \/ ent_type = TypeOf(token_tag) /\ StartsWithB(token_tag)

NoEntity == [open |-> FALSE, ent_type |-> "", link |-> "", start_offset |-> 0]

\* ner.py:138-186, the loop; st.cur is the entity being collected
RECURSIVE CollectLoop(_, _, _)
CollectLoop(toks, st, offset) ==
    IF offset >= Len(toks) THEN st
    ELSE LET token_tag == toks[offset + 1].tag
             token_link == toks[offset + 1].link
             closed == Append(st.named_entities,
                              Entity(st.cur.ent_type, st.cur.link,
                                     st.cur.start_offset, offset - 1, toks))
             opened == [open |-> TRUE, ent_type |-> TypeOf(token_tag),
                        link |-> LinkOf(token_link), start_offset |-> offset]
         IN CollectLoop(toks,
                IF token_tag = "O"
                THEN IF st.cur.open
                     THEN [named_entities |-> closed, cur |-> NoEntity]
                     ELSE st
                ELSE IF ~st.cur.open
                THEN [named_entities |-> st.named_entities, cur |-> opened]
                ELSE IF StartsNew(st.cur.ent_type, token_tag)
                THEN [named_entities |-> closed, cur |-> opened]
                ELSE st,
                offset + 1)

\* ner.py:113-202
collect_named_entities(toks) ==
    LET st == CollectLoop(toks, [named_entities |-> <<>>, cur |-> NoEntity], 0)
    IN IF st.cur.open
       THEN Returned(Append(st.named_entities,
                            Entity(st.cur.ent_type, st.cur.link,
                                   st.cur.start_offset, Len(toks) - 1, toks)))
       ELSE Returned(st.named_entities)

-----------------------------------------------------------------------------
(* SpecNer: the two functions applied to the tokens of a sentence *)

InitNer ==
    /\ linking_resources = <<>>
    /\ dict_mention = NoCall
    /\ result = NoResult
    /\ IdleRank
    /\ IdleApp
    /\ IdleGaz
    /\ IdleMatch
    /\ IdleRel
    /\ IdleJoin
    /\ \E tags \in TagSequences :
          \/ lEntities = EntitiesOf(tags) /\ tags # <<>> /\ tokens = <<>>
          \/ lEntities = <<>> /\ tokens = TokensOf(tags)
    /\ IdleJson

\* recogniser.py:306-309
FixStartEntity ==
    /\ result = NoResult
    /\ lEntities # <<>>
    /\ result' = fix_startEntity(lEntities)
    /\ UNCHANGED <<linking_resources, dict_mention, rankVars, appVars, gazVars,
                   matchVars, extVars>>

\* ner.py:229, aggregate_mentions
CollectNamedEntities ==
    /\ result = NoResult
    /\ lEntities = <<>>
    /\ result' = collect_named_entities(tokens)
    /\ UNCHANGED <<linking_resources, dict_mention, rankVars, appVars, gazVars,
                   matchVars, extVars>>

NextNer == FixStartEntity \/ CollectNamedEntities

SpecNer == InitNer /\ [][NextNer]_vars

-----------------------------------------------------------------------------
(* Claims on the NER post-processing *)

Fixed == lEntities # <<>> /\ result # NoResult
Collected == lEntities = <<>> /\ result # NoResult

InsideTags == {"I-LOC", "I-PER"}
SameType(t, u) ==
    \/ {t, u} \subseteq {"B-LOC", "I-LOC"}
    \/ {t, u} \subseteq {"B-PER", "I-PER"}

\* C25: after fix_startEntity on a non-empty token list the first tag is
\* not I-, no I-X tag follows O or a tag of another type (the token was
\* retagged B-X), and the length of the list and the word, score and
\* offsets of every token are as before.
C25_StartsAreBegin ==
    Fixed =>
        /\ result.raised = "none"
        /\ Len(result.value) = Len(lEntities)
        /\ result.value[1].entity \notin InsideTags
        /\ \A i \in DOMAIN lEntities :
              /\ result.value[i].word = lEntities[i].word
              /\ result.value[i].score = lEntities[i].score
              /\ result.value[i].start = lEntities[i].start
              /\ result.value[i].end = lEntities[i].end
              /\ \/ result.value[i].entity = lEntities[i].entity
                 \/ /\ lEntities[i].entity \in InsideTags
                    /\ result.value[i].entity \notin InsideTags
                    /\ SameType(result.value[i].entity, lEntities[i].entity)
              /\ i > 1 /\ result.value[i].entity \in InsideTags =>
                    SameType(result.value[i - 1].entity, result.value[i].entity)

C25_Witness ==
    /\ Fixed
    /\ Len(lEntities) = 3
    /\ [i \in 1..3 |-> lEntities[i].entity] = <<"I-LOC", "I-PER", "I-PER">>
    /\ [i \in 1..3 |-> result.value[i].entity] = <<"B-LOC", "B-PER", "I-PER">>

\* The offsets (from 0) an entity covers.
Covers(e) == e.start_offset..e.end_offset
TagAt(offset) == tokens[offset + 1].tag

\* C30: the entities collect_named_entities returns are in ascending order
\* and do not overlap; each covers tokens of one type, begins at the first
\* token, after O, at a change of type or at a B- tag, has no B- tag
\* inside, and ends at the last token or before O, a change of type or a
\* B- tag; every non-O token is in exactly one entity and no O token in any.
C30_EntitiesPartition ==
    Collected =>
        /\ result.raised = "none"
        /\ \A k \in DOMAIN result.value :
              LET e == result.value[k]
              IN /\ 0 <= e.start_offset
                 /\ e.start_offset <= e.end_offset
                 /\ e.end_offset <= Len(tokens) - 1
                 /\ k > 1 => result.value[k - 1].end_offset < e.start_offset
                 /\ \A o \in Covers(e) :
                       /\ TagAt(o) # "O"
                       /\ SameType(TagAt(o), TagAt(e.start_offset))
                       /\ o > e.start_offset => TagAt(o) \in InsideTags
                 /\ e.e_type = (IF TagAt(e.start_offset) \in {"B-LOC", "I-LOC"}
                                THEN "LOC" ELSE "PER")
                 /\ \/ e.start_offset = 0
                    \/ TagAt(e.start_offset) \notin InsideTags
                    \/ ~SameType(TagAt(e.start_offset - 1), TagAt(e.start_offset))
                 /\ \/ e.end_offset = Len(tokens) - 1
                    \/ TagAt(e.end_offset + 1) \notin InsideTags
                    \/ ~SameType(TagAt(e.end_offset + 1), TagAt(e.end_offset))
                 /\ e.start_char = tokens[e.start_offset + 1].start_char
                 /\ e.end_char = tokens[e.end_offset + 1].end_char
        /\ \A o \in 0..(Len(tokens) - 1) :
              TagAt(o) # "O" =>
                  Cardinality({k \in DOMAIN result.value : o \in Covers(result.value[k])}) = 1

\* Two entities of one type side by side, the second up to the last token.
C30_Witness ==
    /\ Collected
    /\ Len(tokens) = 3
    /\ [i \in 1..3 |-> tokens[i].tag] = <<"B-LOC", "B-LOC", "I-LOC">>
    /\ Len(result.value) = 2
    /\ result.value[2].start_offset = 1
    /\ result.value[2].end_offset = 2

-----------------------------------------------------------------------------
(* Ties and repeated identifiers in most_popular *)

\* Iteration order of the flattened candidates: variants in the order of
\* the candidate set, identifiers in the order of the variant's map.
Before(p, q) == p[1] < q[1] \/ (p[1] = q[1] /\ p[2] < q[2])
FirstTop ==
    CHOOSE p \in Flat :
        /\ Relevance(p) = TopRelevance
        /\ \A q \in Flat : Before(q, p) => Relevance(q) < TopRelevance

\* C27: of the (variant, identifier) entries sharing the highest relevance
\* most_popular returns the first in iteration order; an identifier under
\* several variants is compared entry by entry, never by the sum of its
\* relevances, and the total is the sum over all entries.
C27_FirstHighestEntryWins ==
    (Called /\ ReturnedNormally /\ Flat # {}) =>
        /\ Identifier = FlatId(FirstTop)
        /\ \A p \in Flat : Relevance(p) <= Confidence.num
        /\ \E p \in Flat : Relevance(p) = Confidence.num
        /\ Confidence.den = TotalRelevance

\* Two identifiers tie on the highest relevance, and the one returned has
\* a smaller summed relevance than the other, listed under two variants.
C27_Witness ==
    /\ Called
    /\ ReturnedNormally
    /\ \E p, q \in Flat :
          /\ Before(p, q)
          /\ FlatId(p) # FlatId(q)
          /\ Relevance(p) = TopRelevance
          /\ Relevance(q) = TopRelevance
          /\ Identifier = FlatId(p)
          /\ \E r \in Flat : r # q /\ FlatId(r) = FlatId(q)

-----------------------------------------------------------------------------
(* rank_candidates and add_publication (utils/rel_utils.py) on the JSON     *)
(* data of prepare_rel_trainset. rel_json maps an article to a reference    *)
(* into heap, where the list objects live; a mention dict is a record.      *)

\* The gazetteer as read from the JSON file: counts are non-negative
\* integers.
RankGazetteers ==
    {("London" :> f) @@ ("Londres" :> g) :
        f \in [Ids -> 0..MaxCount], g \in [{"Q84"} -> {0, MaxCount}]}

\* Normalised relevances and candidate-selection scores, in tenths.
RankerRelevances == {0, 10}
RankerScores == {0, 10}

\* ranker_cands[c]["Candidates"]: id -> normalised relevance, for ids the
\* gazetteer lists under c.
RankerCandidateMaps(m2w, c) ==
    UNION {{[i \in DOMAIN p |-> [id |-> p[i], relv |-> r[i]]] : r \in [DOMAIN p -> RankerRelevances]}
           : p \in OrderedSubsets(DOMAIN m2w[c])}

\* wk_cands[mention]: variation -> {"Score": ..., "Candidates": {...}}.
RankerCands(m2w) ==
    UNION {{[i \in DOMAIN vs |->
                [variation |-> vs[i], Score |-> sc[i], Candidates |-> c[i]]]
            : sc \in [DOMAIN vs -> RankerScores],
              c \in {d \in [DOMAIN vs -> UNION {RankerCandidateMaps(m2w, v) : v \in DOMAIN m2w}]
                     : \A i \in DOMAIN vs : d[i] \in RankerCandidateMaps(m2w, vs[i])}}
           : vs \in OrderedSubsets(DOMAIN m2w)}

\* The ranker was asked for the mentions of places only; "Paris" has no entry.
WkCands(m2w) == {("London" :> rc) : rc \in RankerCands(m2w)}

\* A mention dict as prepare_initial_data builds it (rel_utils.py:137-152).
MentionDict(mention) ==
    [mention |-> mention, place |-> "Manchester", place_wqid |-> "Q18125",
     candidates |-> <<>>]
\* A mention dict of the pipeline, which carries no place of publication.
BareMentionDict(mention) == [mention |-> mention, candidates |-> <<>>]

RelJsons ==
    {[rel_json |-> <<>>, heap |-> <<>>],
     [rel_json |-> <<[article |-> "1_0", ref |-> 1]>>,
      heap |-> <<(<<MentionDict("London")>>)>>],
     [rel_json |-> <<[article |-> "1_0", ref |-> 1], [article |-> "linking", ref |-> 2]>>,
      heap |-> <<(<<MentionDict("Paris"), MentionDict("London")>>),
                 (<<BareMentionDict("London")>>)>>],
     [rel_json |-> <<[article |-> "2_0", ref |-> 1]>>,
      heap |-> <<(<<BareMentionDict("London"), BareMentionDict("London")>>)>>]}

Publications ==
    {[publname |-> "", publwqid |-> ""],
     [publname |-> "Dorchester", publwqid |-> "Q503331"]}

\* rel_utils.py:201: wk_cands.get(mention, dict())
RankerCandsOf(wk, mention) == IF mention \in DOMAIN wk THEN wk[mention] ELSE <<>>

\* rel_utils.py:211-214, in twentieths: the relevance averaged with the
\* candidate-selection score when that score is not 0.
Qcm2wScore(relv, cand_selection_score) ==
    IF cand_selection_score # 0 THEN relv + cand_selection_score ELSE 2 * relv

\* rel_utils.py:202-215: the (qc, count, score) triples of a mention.
RECURSIVE TmpCands(_, _)
TmpCands(ranker_cands, m2w) ==
    IF ranker_cands = <<>> THEN <<>>
    ELSE LET c == Head(ranker_cands)
         IN [i \in DOMAIN c.Candidates |->
                [qc |-> c.Candidates[i].id,
                 qcrlv_score |-> m2w[c.variation][c.Candidates[i].id],
                 qcm2w_score |-> Qcm2wScore(c.Candidates[i].relv, c.Score)]]
            \o TmpCands(Tail(ranker_cands), m2w)

\* rel_utils.py:200, 209-210
RECURSIVE MaxCandFreq(_)
MaxCandFreq(tmp_cands) ==
    IF tmp_cands = <<>> THEN 0
    ELSE Max(Head(tmp_cands).qcrlv_score, MaxCandFreq(Tail(tmp_cands)))

\* n / d rounded to the nearest integer, a half to the even neighbour.
RoundRatio(n, d) ==
    LET q == n \div d
        r == n % d
    IN IF 2 * r < d THEN q
       ELSE IF 2 * r > d THEN q + 1
       ELSE IF q % 2 = 0 THEN q ELSE q + 1

\* rel_utils.py:220-225, in thousandths:
\* round(((count / max + score) / 2) * 0.9, 3).
QcScore(cand, max_cand_freq) ==
    RoundRatio(45 * (20 * cand.qcrlv_score + cand.qcm2w_score * max_cand_freq),
               2 * max_cand_freq)

\* Python's order of the identifiers as strings.
IdOrder(id) == CASE id = "Q84" -> 1 [] id = "Q92561" -> 2 [] OTHER -> 0

\* rel_utils.py:227: the key (x[1], x[0]), reversed.
ComesBefore(a, b) ==
    a[2] > b[2] \/ (a[2] = b[2] /\ IdOrder(a[1]) >= IdOrder(b[1]))

RECURSIVE InsertCand(_, _)
InsertCand(sorted, x) ==
    IF sorted = <<>> THEN <<x>>
    ELSE IF ComesBefore(x, Head(sorted)) THEN <<x>> \o sorted
    ELSE <<Head(sorted)>> \o InsertCand(Tail(sorted), x)

RECURSIVE SortCands(_)
SortCands(cands) ==
    IF cands = <<>> THEN <<>> ELSE InsertCand(SortCands(Tail(cands)), Head(cands))

\* rel_utils.py:197-230, the loop over the mentions of one article: the
\* mention dicts are updated in place; a division by max_cand_freq = 0
\* leaves the loop with the dicts before it already updated.
RECURSIVE RankMentions(_, _, _, _)
RankMentions(list, i, wk, m2w) ==
    IF i > Len(list) THEN [raised |-> "none", list |-> list]
    ELSE LET tmp_cands == TmpCands(RankerCandsOf(wk, list[i].mention), m2w)
             max_cand_freq == MaxCandFreq(tmp_cands)
             cands == [k \in DOMAIN tmp_cands |->
                          <<tmp_cands[k].qc, QcScore(tmp_cands[k], max_cand_freq)>>]
         IN IF tmp_cands # <<>> /\ max_cand_freq = 0
            THEN [raised |-> "ZeroDivisionError", list |-> list]
            ELSE RankMentions([list EXCEPT ![i].candidates = SortCands(cands)],
                              i + 1, wk, m2w)

\* rel_utils.py:194-231, the loop over the articles: new_json gets a new
\* list per article, holding the same (updated) mention dicts.
RECURSIVE RankArticles(_, _, _, _, _, _)
RankArticles(json, k, hp, wk, m2w, new_json) ==
    IF k > Len(json) THEN [result |-> Returned(new_json), heap |-> hp]
    ELSE LET r == RankMentions(hp[json[k].ref], 1, wk, m2w)
             updated == [hp EXCEPT ![json[k].ref] = r.list]
         IN IF r.raised # "none"
            THEN [result |-> Raised(r.raised), heap |-> updated]
            ELSE RankArticles(json, k + 1, Append(updated, r.list), wk, m2w,
                              Append(new_json, [article |-> json[k].article,
                                                ref |-> Len(updated) + 1]))

rank_candidates(json, hp, wk, m2w) == RankArticles(json, 1, hp, wk, m2w, <<>>)

\* dict.get(key, default) for the two keys add_publication reads.
GetPlace(d, default) == IF "place" \in DOMAIN d THEN d.place ELSE default
GetPlaceWqid(d, default) == IF "place_wqid" \in DOMAIN d THEN d.place_wqid ELSE default

StrLen(place) ==
    CASE place = "" -> 0 [] place = "Manchester" -> 10 [] place = "Dorchester" -> 10

PreffixSentence == "This article is published in "
PreffixLen == 29

\* rel_utils.py:258-273; the score 1.0 in thousandths.
DictPubl(place, place_wqid) ==
    [mention |-> place,
     sent_idx |-> 0,
     sentence |-> PreffixSentence \o place \o ".",
     gold |-> <<place_wqid>>,
     ngram |-> place,
     context |-> <<"", "">>,
     pos |-> PreffixLen,
     end_pos |-> PreffixLen + PreffixLen + StrLen(place) + 1,
     candidates |-> <<(<<place_wqid, 1000>>)>>,
     place |-> place,
     place_wqid |-> place_wqid,
     ner_label |-> "LOC"]

\* rel_utils.py:251: a copy of the dict alone; its values are the list
\* objects of the input.
ShallowCopy(json) == json

\* rel_utils.py:252-274: the pseudo-mention is appended to the list object
\* new_json[article] refers to.
RECURSIVE PublicationLoop(_, _, _, _, _, _)
PublicationLoop(json, k, hp, new_json, publname, publwqid) ==
    IF k > Len(json) THEN [result |-> Returned(new_json), heap |-> hp]
    ELSE LET article == json[k].article
             list == hp[json[k].ref]
         IN IF article # "linking" /\ list = <<>>
            THEN [result |-> Raised("IndexError"), heap |-> hp]
            ELSE LET place == IF article # "linking"
                              THEN GetPlace(list[1], publname) ELSE publname
                     place_wqid == IF article # "linking"
                                   THEN GetPlaceWqid(list[1], publwqid) ELSE publwqid
                 IN PublicationLoop(json, k + 1,
                        [hp EXCEPT ![new_json[k].ref] = Append(@, DictPubl(place, place_wqid))],
                        new_json, publname, publwqid)

add_publication(json, hp, publname, publwqid) ==
    PublicationLoop(json, 1, hp, ShallowCopy(json), publname, publwqid)

InitJson ==
    /\ linking_resources = <<>>
    /\ dict_mention = NoCall
    /\ result = NoResult
    /\ IdleRank
    /\ IdleApp
    /\ files = <<>>
    /\ method = "perfectmatch"
    /\ wiki_filtering = <<>>
    /\ mentions_to_wikidata \in RankGazetteers
    /\ wikidata_to_mentions = <<>>
    /\ passes = 0
    /\ IdleMatch
    /\ IdleRel
    /\ IdleJoin
    /\ IdleNer
    /\ wk_cands \in WkCands(mentions_to_wikidata)
    /\ \E j \in RelJsons : rel_json = j.rel_json /\ heap = j.heap
    /\ publication = <<>>

\* prepare_rel_trainset, rel_utils.py:328-332.
RankCandidates ==
    /\ result = NoResult
    /\ LET r == rank_candidates(rel_json, heap, wk_cands, mentions_to_wikidata)
       IN /\ result' = r.result
          /\ heap' = r.heap
    /\ UNCHANGED <<linking_resources, dict_mention, rankVars, appVars, gazVars,
                   matchVars, relVars, joinVars, nerVars, rel_json, wk_cands,
                   publication>>

\* prepare_rel_trainset, rel_utils.py:335-340.
AddPublication ==
    /\ result = NoResult
    /\ \E p \in Publications :
          LET r == add_publication(rel_json, heap, p.publname, p.publwqid)
          IN /\ publication' = p
             /\ result' = r.result
             /\ heap' = r.heap
    /\ UNCHANGED <<linking_resources, dict_mention, rankVars, appVars, gazVars,
                   matchVars, relVars, joinVars, nerVars, rel_json, wk_cands>>

NextJson == RankCandidates \/ AddPublication

SpecJson == InitJson /\ [][NextJson]_vars

-----------------------------------------------------------------------------
(* Claims on the JSON data *)

Ranked == rel_json # <<>> /\ publication = <<>> /\ result # NoResult

RECURSIVE Descending(_)
Descending(cands) ==
    Len(cands) < 2 \/ (cands[1][2] >= cands[2][2] /\ Descending(Tail(cands)))

\* C26: rank_candidates, given relevances and Scores in [0, 1] and counts
\* that are non-negative integers, completes without error, also when all
\* counts of a mention's candidates are 0; every score it emits lies
\* between 0 and 0.9 and every candidate list is in descending order of
\* score.
C26_ScoresBoundedAndSorted ==
    Ranked =>
        /\ result.raised = "none"
        /\ \A k \in DOMAIN result.value :
              \A i \in DOMAIN heap[result.value[k].ref] :
                  LET cands == heap[result.value[k].ref][i].candidates
                  IN /\ \A c \in DOMAIN cands : cands[c][2] \in 0..900
                     /\ Descending(cands)

\* The same for the calls in which some candidate of every mention has a
\* positive count.
C26_SomeCountPositive ==
    (Ranked /\ result.raised = "none") =>
        \A k \in DOMAIN result.value :
            \A i \in DOMAIN heap[result.value[k].ref] :
                LET cands == heap[result.value[k].ref][i].candidates
                IN /\ \A c \in DOMAIN cands : cands[c][2] \in 0..900
                   /\ Descending(cands)

\* C29: add_publication returns a new dictionary with the keys of the
\* input, each list being the input's list followed by one pseudo-mention
\* whose only candidate is [place_wqid, 1.0]; the input rel_json, its keys
\* and each of its lists, is after the call what it was before.
C29_InputUntouched ==
    [][(publication = <<>> /\ publication' # <<>>) =>
          /\ result'.raised = "none"
          /\ Len(result'.value) = Len(rel_json)
          /\ \A k \in DOMAIN rel_json :
                LET before == heap[rel_json[k].ref]
                    after == heap'[result'.value[k].ref]
                IN /\ result'.value[k].article = rel_json[k].article
                   /\ Len(after) = Len(before) + 1
                   /\ SubSeq(after, 1, Len(before)) = before
                   /\ Len(after[Len(after)].candidates) = 1
                   /\ after[Len(after)].candidates[1]
                          = <<after[Len(after)].place_wqid, 1000>>
          /\ rel_json' = rel_json
          /\ \A k \in DOMAIN rel_json : heap'[rel_json[k].ref] = heap[rel_json[k].ref]]_vars

-----------------------------------------------------------------------------
(* SpecLookup: the lookup operations on a loaded gazetteer, in any order.   *)
(* The ranker and the linker each hold the mapping they loaded; an          *)
(* operation is given the dict object and may read or write it.             *)

\* A dict that builds the missing key on a read (collections.defaultdict).
GetItemInserting(d, key) == IF key \in DOMAIN d THEN d ELSE (key :> <<>>) @@ d
\* d[key] on the dicts json.load builds: what the read leaves of d. It
\* inserts nothing, also where the key is missing and KeyError is raised.
GetItem(d, key) == d

\* linking.py:280-282, rel_utils.py:208: m2w[variation][candidate].
AfterRead(m2w, variation, candidate) ==
    LET outer == GetItem(m2w, variation)
    IN IF variation \in DOMAIN m2w
       THEN [outer EXCEPT ![variation] = GetItem(@, candidate)]
       ELSE outer

Listed(m2w, e) ==
    e.variation \in DOMAIN m2w /\ e.candidate \in DOMAIN m2w[e.variation]

\* The gazetteer after the reads of a loop over the entries; the loop ends
\* at the first read that raises KeyError.
RECURSIVE AfterEntries(_, _)
AfterEntries(m2w, es) ==
    IF es = <<>> THEN m2w
    ELSE LET after == AfterRead(m2w, Head(es).variation, Head(es).candidate)
         IN IF Listed(m2w, Head(es)) THEN AfterEntries(after, Tail(es)) ELSE after

\* perform_linking, linking.py:153-158: most_popular applied to a row; a
\* variation or candidate the gazetteer does not list raises KeyError.
LinkRow(resources, mention) ==
    IF \A i \in DOMAIN Entries(mention.candidates) :
           Listed(resources.mentions_to_wikidata, Entries(mention.candidates)[i])
    THEN most_popular(resources, mention)
    ELSE Raised("KeyError")

\* Candidate sets a caller may hand over, whatever the gazetteer lists.
LookupCandidateMaps ==
    {[i \in DOMAIN p |-> [id |-> p[i], relv |-> 9]] : p \in OrderedSubsets(Ids)}
LookupCandidateSets ==
    UNION {{[i \in DOMAIN vs |-> [variation |-> vs[i], Candidates |-> c[i]]]
            : c \in [DOMAIN vs -> LookupCandidateMaps]}
           : vs \in OrderedSubsets(Variations)}

\* The ranker's candidates for "London": one listed variation with all
\* its identifiers.
LookupWkCands(m2w) ==
    UNION {{("London" :> <<[variation |-> v, Score |-> 10, Candidates |-> cm]>>)
            : cm \in {c \in RankerCandidateMaps(m2w, v) :
                          /\ Len(c) = Cardinality(DOMAIN m2w[v])
                          /\ \A i \in DOMAIN c : c[i].relv = 10}}
           : v \in DOMAIN m2w}

\* The (variation, candidate) reads of rank_candidates, rel_utils.py:195-208.
RECURSIVE RankReads(_, _, _, _)
RankReads(json, hp, wk, k) ==
    IF k > Len(json) THEN <<>>
    ELSE LET list == hp[json[k].ref]
             ReadsOf[i \in 0..Len(list)] ==
                 IF i = 0 THEN <<>>
                 ELSE ReadsOf[i - 1] \o Entries(RankerCandsOf(wk, list[i].mention))
         IN ReadsOf[Len(list)] \o RankReads(json, hp, wk, k + 1)

InitLookup ==
    /\ linking_resources \in {[mentions_to_wikidata |-> g] : g \in Gazetteers}
    /\ dict_mention = NoCall
    /\ result = NoResult
    /\ IdleRank
    /\ IdleApp
    /\ mentions_to_wikidata = linking_resources.mentions_to_wikidata
    /\ wikidata_to_mentions = Transpose(mentions_to_wikidata)
    /\ files = [wikidata_to_mentions |-> wikidata_to_mentions,
                mentions_to_wikidata |-> mentions_to_wikidata]
    /\ method = "mostpopular"
    /\ wiki_filtering = <<>>
    /\ passes = 1
    /\ IdleMatch
    /\ IdleExt

\* Ranker.find_candidates with the exact strategy: the gazetteer is tested
\* for membership, the cache of the ranker is written.
LookupFindCandidates ==
    /\ result = NoResult
    /\ \E qs \in Batches :
          /\ queried' = qs
          /\ result' = perfect_match(qs, mentions_to_wikidata, already_collected_cands)
    /\ already_collected_cands' = result'.value[2]
    /\ strategy' = "perfect_match"
    /\ UNCHANGED <<linking_resources, dict_mention, match_calls, dCandidates,
                   sentence_id, appVars, gazVars, query, row, extVars>>

\* perform_linking with the baseline: most_popular on one row.
LookupMostPopular ==
    /\ result = NoResult
    /\ \E cands \in LookupCandidateSets :
          /\ dict_mention' = [candidates |-> cands]
          /\ result' = LinkRow(linking_resources, [candidates |-> cands])
          /\ linking_resources' =
                [linking_resources EXCEPT !.mentions_to_wikidata =
                    AfterEntries(@, Entries(cands))]
    /\ UNCHANGED <<rankVars, appVars, gazVars, matchVars, extVars>>

\* rank_candidates with the linker's gazetteer: the mention dicts are
\* updated in place.
LookupRankCandidates ==
    /\ result = NoResult
    /\ \E j \in RelJsons, wk \in LookupWkCands(linking_resources.mentions_to_wikidata) :
          LET r == rank_candidates(j.rel_json, j.heap, wk,
                                   linking_resources.mentions_to_wikidata)
          IN /\ rel_json' = j.rel_json
             /\ wk_cands' = wk
             /\ result' = r.result
             /\ heap' = r.heap
             /\ linking_resources' =
                   [linking_resources EXCEPT !.mentions_to_wikidata =
                       AfterEntries(@, RankReads(j.rel_json, j.heap, wk, 1))]
    /\ UNCHANGED <<dict_mention, rankVars, appVars, gazVars, matchVars,
                   relVars, joinVars, nerVars, publication>>

\* The caller takes what the lookup gave, or its exception, and goes on.
NextLookupCall ==
    /\ result # NoResult
    /\ result' = NoResult
    /\ dict_mention' = NoCall
    /\ strategy' = "none"
    /\ queried' = <<>>
    /\ rel_json' = <<>>
    /\ heap' = <<>>
    /\ wk_cands' = <<>>
    /\ UNCHANGED <<linking_resources, rankVars, appVars, gazVars, query, row,
                   relVars, joinVars, nerVars, publication>>

NextLookup ==
    \/ LookupFindCandidates
    \/ LookupMostPopular
    \/ LookupRankCandidates
    \/ NextLookupCall

SpecLookup == InitLookup /\ [][NextLookup]_vars

\* C24: after the load no lookup operation (find_candidates, most_popular
\* through perform_linking, rank_candidates) changes a key or a count of
\* the mention-to-identifier or the identifier-to-mention mapping, of the
\* ranker or of the linker.
C24_GazetteerReadOnly ==
    [][/\ mentions_to_wikidata' = mentions_to_wikidata
       /\ wikidata_to_mentions' = wikidata_to_mentions
       /\ linking_resources' = linking_resources]_vars

\* A lookup of a variation the gazetteer does not list has raised KeyError,
\* after the ranker's cache was written by an earlier lookup; the mappings
\* are those of the files.
C24_Witness ==
    /\ passes = 1
    /\ result.raised = "KeyError"
    /\ \E i \in DOMAIN dict_mention.candidates :
          dict_mention.candidates[i].variation \notin DOMAIN files.mentions_to_wikidata
    /\ already_collected_cands # <<>>
    /\ linking_resources.mentions_to_wikidata = files.mentions_to_wikidata
    /\ mentions_to_wikidata = files.mentions_to_wikidata

====
